---------------------------- MODULE Spec2Model ----------------------------
(***************************************************************************)
(* IPv4 address, subnet and subnet-pool management of nuagekubemon          *)
(* (src/nuagekubemon/client/ipv4subnet.go).                                 *)
(*                                                                         *)
(* An IPv4Address is [4]uint8, modelled as a function 0..3 -> 0..255.      *)
(* An IPv4Subnet is a record [Address, CIDRMask].  An IPv4SubnetPool is an *)
(* array of 33 linked lists, modelled as a function 0..32 -> sequence of   *)
(* subnets (head of the list first).                                       *)
(***************************************************************************)
EXTENDS Integers, Sequences, FiniteSets, Bags, TLC

VARIABLES
    pool,     \* the IPv4SubnetPool: bucket (CIDR mask) -> list of free subnets
    held,     \* bag of subnets returned by Alloc and not yet successfully freed
    cidr,     \* the cluster CIDR the pool was initialised with
    last,     \* the last pool call: operation, arguments, returned subnet, error
    crashed,  \* TRUE once a call ended in a Go run-time panic
    calc,     \* subnet arithmetic: the inputs and the results of Split and Merge
    scen,     \* the allocate-until-exhausted scenario: phase, request, calls made
    nvsdc,    \* the NuageVsdClient: namespaces, zones, subnets, priority counter
    vsd,      \* the SDN: zones, subnets, macro groups, ACL entries, macros
    chans,    \* the channels of Run: stop sent, events received, failed calls
    ev,       \* the event Run handled last and how it ended
    boot      \* NuageVsdClient.Init: its configuration, its position, its last step

vars == <<pool, held, cidr, last, crashed, calc, scen, nvsdc, vsd, chans, ev, boot>>

---------------------------------------------------------------------------
(* Bounds of the model. *)

\* Requests go at most this many bits below the cluster CIDR's mask.
MaxDepth == 2
\* The exhaustion scenario asks for blocks at most this many bits below the CIDR.
ExhaustDepth == 3
\* Frees of subnets the caller does not hold stop once this many blocks exist.
MaxBlocks == 3

---------------------------------------------------------------------------
(* uint8 arithmetic. *)

Pow2(n) == 2 ^ n

RECURSIVE BitAnd(_, _)
BitAnd(x, y) ==
    IF x = 0 \/ y = 0 THEN 0
    ELSE ((x % 2) * (y % 2)) + 2 * BitAnd(x \div 2, y \div 2)

BitNot(x) == 255 - x

BitOr(x, y) == x + y - BitAnd(x, y)

\* uint8(v) of a non-negative value, and the wrap-around of a uint8 difference.
Uint8(v) == v % 256

---------------------------------------------------------------------------
(* Values. *)

Addr(a, b, c, d) == (0 :> a) @@ (1 :> b) @@ (2 :> c) @@ (3 :> d)

ZeroAddress == Addr(0, 0, 0, 0)

Subnet(a, m) == [Address |-> a, CIDRMask |-> m]

\* A nil *IPv4Subnet.
NilSubnet == Subnet(ZeroAddress, -1)

EmptyPool == [m \in 0..32 |-> << >>]

---------------------------------------------------------------------------
(* IPv4Subnet.Split *)

\* The loop of Split over the four bytes: what both halves get before the
\* split bit is cleared or set.  acc starts as the zero address.
RECURSIVE SplitLoop(_, _, _, _)
SplitLoop(subnet, i, mask, acc) ==
    IF i >= 4 THEN acc
    ELSE IF mask >= 8
         THEN SplitLoop(subnet, i + 1, mask - 8,
                        [acc EXCEPT ![i] = subnet.Address[i]])
    ELSE IF mask > 0
         THEN LET bitmask == Uint8((256 - Pow2(8 - mask)) % 256)
              IN  SplitLoop(subnet, i + 1, 0,
                            [acc EXCEPT ![i] = BitAnd(subnet.Address[i], bitmask)])
    ELSE SplitLoop(subnet, i + 1, mask, acc)

\* Mutant of SplitHi: the split bit is never set, so the high half is the low one.
SplitHiBitLost(base, index, bit) == base

SplitHi(base, index, bit) == [base EXCEPT ![index] = BitOr(base[index], bit)]

SplitLo(base, index, bit) == [base EXCEPT ![index] = BitAnd(base[index], BitNot(bit))]

\* Mutant of Split: the guard is off by one, a /31 cannot be split either.
SplitStopsAt31(subnet) ==
    IF subnet.CIDRMask >= 31
    THEN [lo |-> NilSubnet, hi |-> NilSubnet, err |-> "CannotSplit"]
    ELSE LET base   == SplitLoop(subnet, 0, subnet.CIDRMask, ZeroAddress)
             index  == subnet.CIDRMask \div 8
             offset == subnet.CIDRMask % 8
             bit    == 128 \div Pow2(offset)
         IN  [lo  |-> Subnet(SplitLo(base, index, bit), subnet.CIDRMask + 1),
              hi  |-> Subnet(SplitHi(base, index, bit), subnet.CIDRMask + 1),
              err |-> "nil"]

Split(subnet) ==
    IF subnet.CIDRMask >= 32
    THEN [lo |-> NilSubnet, hi |-> NilSubnet, err |-> "CannotSplit"]
    ELSE LET base   == SplitLoop(subnet, 0, subnet.CIDRMask, ZeroAddress)
             index  == subnet.CIDRMask \div 8
             offset == subnet.CIDRMask % 8
             bit    == 128 \div Pow2(offset)
         IN  [lo  |-> Subnet(SplitLo(base, index, bit), subnet.CIDRMask + 1),
              hi  |-> Subnet(SplitHi(base, index, bit), subnet.CIDRMask + 1),
              err |-> "nil"]

---------------------------------------------------------------------------
(* IPv4Subnet.Compare *)

\* The byte mask Compare applies to the one byte it looks at.
CompareMask(m) == Uint8((256 - Pow2(8 - (m % 8))) % 256)

\* The difference of two uint8 values is a uint8: it wraps around.
CompareBytes(x, y) == Uint8((x - y) + 256)

\* panic is TRUE when a.Address[index] is indexed out of range (index = 4).
Compare(a, b) ==
    IF b.CIDRMask - a.CIDRMask # 0
    THEN [panic |-> FALSE, n |-> b.CIDRMask - a.CIDRMask]
    ELSE LET index == a.CIDRMask \div 8
             mask  == CompareMask(a.CIDRMask)
         IN  IF index \notin 0..3
             THEN [panic |-> TRUE, n |-> 0]
             ELSE [panic |-> FALSE,
                   n |-> CompareBytes(BitAnd(a.Address[index], mask),
                                      BitAnd(b.Address[index], mask))]

---------------------------------------------------------------------------
(* CanMerge and Merge *)

CanMerge(a, b) ==
    IF a.CIDRMask <= 0 \/ b.CIDRMask <= 0
    THEN [panic |-> FALSE, ok |-> FALSE]
    ELSE LET c == Compare(a, b)
         IN  IF c.panic THEN [panic |-> TRUE, ok |-> FALSE]
             ELSE IF c.n = 0 THEN [panic |-> FALSE, ok |-> FALSE]
             ELSE IF a.CIDRMask # b.CIDRMask THEN [panic |-> FALSE, ok |-> FALSE]
             ELSE LET aCopy == Subnet(a.Address, a.CIDRMask - 1)
                      bCopy == Subnet(b.Address, b.CIDRMask - 1)
                      cc    == Compare(aCopy, bCopy)
                  IN  IF cc.panic THEN [panic |-> TRUE, ok |-> FALSE]
                      ELSE [panic |-> FALSE, ok |-> cc.n = 0]

Merge(a, b) ==
    LET can == CanMerge(a, b)
    IN  IF can.panic THEN [subnet |-> NilSubnet, err |-> "panic"]
        ELSE IF ~can.ok THEN [subnet |-> NilSubnet, err |-> "CannotMerge"]
        ELSE LET newMask == a.CIDRMask - 1
                 index   == newMask \div 8
                 mask    == Uint8(256 - Pow2(8 - (newMask % 8)))
             IN  [subnet |-> Subnet([a.Address EXCEPT
                                        ![index] = BitAnd(a.Address[index], mask)],
                                    newMask),
                  err |-> "nil"]

---------------------------------------------------------------------------
(* IPv4SubnetPool.Free *)

InsertAt(list, pos, subnet) ==
    SubSeq(list, 1, pos - 1) \o << subnet >> \o SubSeq(list, pos, Len(list))

\* Free's test on the head of the list: TRUE when the subnet goes first.
FreeBeforeHead(c) == c.n < 0

\* Free's loop over the nodes after the head; i is the position of curr.
\* The result is the error (if any) and the position the subnet is linked at.
RECURSIVE FreeLoop(_, _, _)
FreeLoop(list, subnet, i) ==
    IF i > Len(list)
    THEN [err |-> "nil", pos |-> Len(list) + 1]
    ELSE LET c == Compare(subnet, list[i])
         IN  IF c.panic THEN [err |-> "panic", pos |-> 0]
             ELSE IF c.n = 0 THEN [err |-> "DoubleFree", pos |-> 0]
             ELSE IF c.n < 0 THEN [err |-> "nil", pos |-> i]
             ELSE FreeLoop(list, subnet, i + 1)

\* Mutant of Free: a subnet that is refused as a double free is linked at the
\* end of its list all the same.
FreeLinksRefused(p, subnet) ==
    IF subnet.CIDRMask < 0 \/ subnet.CIDRMask > 32
    THEN [pool |-> p, err |-> "BadSubnet"]
    ELSE LET list == p[subnet.CIDRMask]
         IN  IF list = << >>
             THEN [pool |-> [p EXCEPT ![subnet.CIDRMask] = << subnet >>],
                   err  |-> "nil"]
             ELSE LET c == Compare(subnet, list[1])
                  IN  IF c.panic THEN [pool |-> p, err |-> "panic"]
                      ELSE IF FreeBeforeHead(c)
                      THEN [pool |-> [p EXCEPT ![subnet.CIDRMask] =
                                                  << subnet >> \o list],
                            err  |-> "nil"]
                      ELSE LET r == FreeLoop(list, subnet, 2)
                           IN  IF r.err = "panic"
                               THEN [pool |-> p, err |-> r.err]
                               ELSE [pool |-> [p EXCEPT ![subnet.CIDRMask] =
                                                  Append(list, subnet)],
                                     err  |-> r.err]

Free(p, subnet) ==
    IF subnet.CIDRMask < 0 \/ subnet.CIDRMask > 32
    THEN [pool |-> p, err |-> "BadSubnet"]
    ELSE LET list == p[subnet.CIDRMask]
         IN  IF list = << >>
             THEN [pool |-> [p EXCEPT ![subnet.CIDRMask] = << subnet >>],
                   err  |-> "nil"]
             ELSE LET c == Compare(subnet, list[1])
                  IN  IF c.panic THEN [pool |-> p, err |-> "panic"]
                      ELSE IF FreeBeforeHead(c)
                      THEN [pool |-> [p EXCEPT ![subnet.CIDRMask] =
                                                  << subnet >> \o list],
                            err  |-> "nil"]
                      ELSE LET r == FreeLoop(list, subnet, 2)
                           IN  IF r.err # "nil"
                               THEN [pool |-> p, err |-> r.err]
                               ELSE [pool |-> [p EXCEPT ![subnet.CIDRMask] =
                                                  InsertAt(list, r.pos, subnet)],
                                     err  |-> "nil"]

---------------------------------------------------------------------------
(* IPv4SubnetPool.Alloc *)

\* Mutant of AllocKeeps: Alloc returns the block it split, not its low half.
AllocKeepsBig(halves) == Subnet(halves.lo.Address, halves.lo.CIDRMask - 1)

\* Mutant of AllocFrees: Alloc frees the half it also returns.
AllocFreesKept(halves) == halves.lo

\* Which half of a split Alloc hands to the caller; the other one is freed.
AllocKeeps(halves) == halves.lo

AllocFrees(halves) == halves.hi

RECURSIVE Alloc(_, _)
Alloc(p, size) ==
    IF size < 0 \/ size > 32
    THEN [pool |-> p, subnet |-> NilSubnet, err |-> "InvalidSize"]
    ELSE IF p[size] # << >>
    THEN [pool   |-> [p EXCEPT ![size] = Tail(p[size])],
          subnet |-> Head(p[size]),
          err    |-> "nil"]
    ELSE LET big == Alloc(p, size - 1)
         IN  IF big.err # "nil"
             THEN [pool |-> big.pool, subnet |-> NilSubnet, err |-> big.err]
             ELSE LET halves == Split(big.subnet)
                  IN  IF halves.err # "nil"
                      THEN [pool   |-> Free(big.pool, big.subnet).pool,
                            subnet |-> NilSubnet,
                            err    |-> halves.err]
                      ELSE LET f == Free(big.pool, AllocFrees(halves))
                           IN  IF f.err = "panic"
                               THEN [pool |-> f.pool, subnet |-> NilSubnet,
                                     err  |-> "panic"]
                               ELSE IF f.err # "nil"
                               THEN [pool   |-> Free(f.pool, big.subnet).pool,
                                     subnet |-> NilSubnet,
                                     err    |-> f.err]
                               ELSE [pool   |-> f.pool,
                                     subnet |-> AllocKeeps(halves),
                                     err    |-> "nil"]

---------------------------------------------------------------------------
(* The inputs the model draws from. *)

\* Cluster CIDRs: the /0, a block whose sub-blocks reach a byte boundary (/24)
\* and one whose sub-blocks reach /32.
ClusterCIDRs ==
    { Subnet(Addr(0, 0, 0, 0), 0),
      Subnet(Addr(10, 0, 0, 0), 22),
      Subnet(Addr(10, 0, 0, 0), 30) }

Min(a, b) == IF a < b THEN a ELSE b

\* How far below the cluster CIDR requests go.  The buckets of the /0 pool keep
\* every order in which subnets are freed, so it is split one level less.
Depth(c, depth) == IF c.CIDRMask = 0 THEN depth - 1 ELSE depth

\* The sizes asked of Alloc: out of range, larger than the pool, and down to
\* Depth bits below the cluster CIDR.
AllocSizes(c, depth) ==
    {-1, 33} \cup {k \in 0..32 : /\ c.CIDRMask - 1 <= k
                                /\ k <= c.CIDRMask + Depth(c, depth)}

\* Masks Free rejects.
BadMasks == {-1, 33}

TestAddresses ==
    { Addr(0, 0, 0, 0), Addr(10, 0, 0, 0), Addr(10, 0, 0, 128),
      Addr(10, 0, 1, 0), Addr(10, 0, 1, 128), Addr(10, 128, 0, 0),
      Addr(192, 168, 77, 201), Addr(255, 255, 255, 255) }

TestSubnets == {Subnet(a, m) : a \in TestAddresses, m \in 0..32}

---------------------------------------------------------------------------
(* State outside the part a specification exercises. *)

NoCall == [op |-> "none", size |-> -2, subnet |-> NilSubnet, err |-> "nil"]

NoCalc == [op |-> "none", a |-> NilSubnet, b |-> NilSubnet, lo |-> NilSubnet,
           hi |-> NilSubnet, out |-> NilSubnet, n |-> 0, back |-> 0, err |-> "nil"]

NoScen == [phase |-> "none", k |-> -2, calls |-> 0]

\* The subnets free in the pool, and how many list nodes hold them.
PoolEntries(p) == UNION {{p[m][i] : i \in 1..Len(p[m])} : m \in 0..32}

RECURSIVE PoolNodes(_, _)
PoolNodes(p, m) == IF m > 32 THEN 0 ELSE Len(p[m]) + PoolNodes(p, m + 1)

---------------------------------------------------------------------------
(* The controller (NuageVsdClient) and the SDN it drives.                    *)
(*                                                                         *)
(* An SDN object id is a positive number handed out by the SDN; the empty   *)
(* string of the code is NoID.  A Go map is a function on the set of its    *)
(* keys.                                                                    *)

\* The empty id "".
NoID == 0

\* A map with no entries.
EmptyMap == [k \in {} |-> NoID]

\* map[key] = value
MapSet(map, key, value) == (key :> value) @@ map

\* delete(map, key)
MapDelete(map, key) == [k \in DOMAIN map \ {key} |-> map[k]]

\* The SDN of a fresh installation: no zone, subnet, macro group, ACL entry.
EmptyVsd == [infra   |-> EmptyMap,   \* enterprise, admin user, domain, ...: kind -> id
             admins  |-> {},         \* the user ids PUT into the admin group
             zones   |-> EmptyMap,   \* zone name -> id
             subnets |-> {},         \* [ID, zone, name, subnet]
             groups  |-> EmptyMap,   \* macro group name -> id
             acls    |-> {},         \* [ingress, Priority, LocationID, NetworkID]
             macros  |-> {},         \* network macros, <<namespace, service>>
             members |-> {},         \* <<macro group id, network macro id>>
             nextID  |-> 1]

\* The client of a specification that does not run the controller.
NoClient == [namespaces |-> EmptyMap, zones |-> [made |-> FALSE, map |-> EmptyMap],
             subnets |-> EmptyMap, nextAvailablePriority |-> 0,
             enterpriseID |-> NoID, domainID |-> NoID,
             ingressAclTemplateID |-> NoID, egressAclTemplateID |-> NoID,
             subnetSize |-> 0, running |-> FALSE]

NoChans == [stop |-> FALSE, failures |-> 0, limit |-> 0]

NoEvent == [n |-> 0, kind |-> "none", type |-> "none", name |-> "none",
            service |-> "none", annotations |-> EmptyMap,
            tracked |-> FALSE, failed |-> FALSE, err |-> "nil",
            handouts |-> 0, given |-> << >>, pre |-> EmptyVsd]

\* Init of a specification that does not follow its steps.  pc is the number
\* of the request Init sends next, step the one it sent last; existed, got,
\* id and err tell how that one went; failed: a request of this Init was
\* answered with an error.
NoBoot == [pc |-> 0, fatal |-> FALSE, subnetLength |-> 0, restarts |-> 0,
           step |-> 0, existed |-> FALSE, got |-> "none", id |-> NoID,
           err |-> "nil", failed |-> FALSE]

CtlIdle ==
    /\ nvsdc = NoClient
    /\ vsd = EmptyVsd
    /\ chans = NoChans
    /\ ev = NoEvent
    /\ boot = NoBoot

---------------------------------------------------------------------------
(* The pool and its callers. *)

\* NuageVsdClient.Init: the zero-valued pool, then Free of the cluster CIDR.
InitPool(c) == Free(EmptyPool, c).pool

Init ==
    /\ cidr \in ClusterCIDRs
    /\ pool = InitPool(cidr)
    /\ held = EmptyBag
    /\ last = [op |-> "Init", size |-> cidr.CIDRMask, subnet |-> cidr, err |-> "nil"]
    /\ crashed = FALSE
    /\ calc = NoCalc
    /\ scen = NoScen
    /\ CtlIdle

\* One call pool.Alloc(size) by a caller that keeps the subnet it is given.
DoAlloc(size) ==
    LET r == Alloc(pool, size)
    IN  /\ pool' = r.pool
        /\ held' = IF r.err = "nil" THEN held (+) SetToBag({r.subnet}) ELSE held
        /\ last' = [op |-> "Alloc", size |-> size, subnet |-> r.subnet, err |-> r.err]
        /\ crashed' = (r.err = "panic")

\* One call pool.Free(subnet); op names the caller's situation.  A caller
\* whose Free succeeded no longer holds the subnet.
DoFree(op, subnet) ==
    LET r == Free(pool, subnet)
    IN  /\ pool' = r.pool
        /\ held' = IF r.err = "nil" /\ BagIn(subnet, held)
                   THEN held (-) SetToBag({subnet}) ELSE held
        /\ last' = [op |-> op, size |-> subnet.CIDRMask, subnet |-> subnet,
                    err |-> r.err]
        /\ crashed' = (r.err = "panic")

AllocCall ==
    /\ ~crashed
    /\ scen = NoScen /\ calc = NoCalc
    /\ \E size \in AllocSizes(cidr, MaxDepth) : DoAlloc(size)
    /\ UNCHANGED <<cidr, calc, scen, nvsdc, vsd, chans, ev, boot>>

\* Free of a subnet the caller was given by Alloc and has not freed yet.
FreeHeld ==
    /\ ~crashed
    /\ scen = NoScen /\ calc = NoCalc
    /\ \E s \in BagToSet(held) : DoFree("FreeHeld", s)
    /\ UNCHANGED <<cidr, calc, scen, nvsdc, vsd, chans, ev, boot>>

\* Free of a subnet that is free already: it equals an entry of the pool.
FreeAgain ==
    /\ ~crashed
    /\ scen = NoScen /\ calc = NoCalc
    /\ PoolNodes(pool, 0) + BagCardinality(held) < MaxBlocks
    /\ \E s \in PoolEntries(pool) : DoFree("FreeAgain", s)
    /\ UNCHANGED <<cidr, calc, scen, nvsdc, vsd, chans, ev, boot>>

\* Free of a subnet whose mask is outside 0..32.
FreeBadMask ==
    /\ ~crashed
    /\ scen = NoScen /\ calc = NoCalc
    /\ \E m \in BadMasks : DoFree("FreeBadMask", Subnet(cidr.Address, m))
    /\ UNCHANGED <<cidr, calc, scen, nvsdc, vsd, chans, ev, boot>>

\* Callers that free only what they hold.
Next == AllocCall \/ FreeHeld

Spec == Init /\ [][Next]_vars

\* Callers that also free subnets they do not hold.
NextMisuse == AllocCall \/ FreeHeld \/ FreeAgain \/ FreeBadMask

SpecMisuse == Init /\ [][NextMisuse]_vars

\* Callers whose calls fail: the same calls, splitting one level less.
AllocShallow ==
    /\ ~crashed
    /\ scen = NoScen /\ calc = NoCalc
    /\ \E size \in AllocSizes(cidr, MaxDepth - 1) : DoAlloc(size)
    /\ UNCHANGED <<cidr, calc, scen, nvsdc, vsd, chans, ev, boot>>

NextFail == AllocShallow \/ FreeHeld \/ FreeAgain \/ FreeBadMask

SpecFail == Init /\ [][NextFail]_vars

---------------------------------------------------------------------------
(* Allocating until the pool is exhausted: Alloc(k) until it fails, Free of  *)
(* one of the allocated subnets, Alloc(k) once more.                         *)

InitExhaust ==
    /\ cidr \in ClusterCIDRs
    /\ pool = InitPool(cidr)
    /\ held = EmptyBag
    /\ last = [op |-> "Init", size |-> cidr.CIDRMask, subnet |-> cidr, err |-> "nil"]
    /\ crashed = FALSE
    /\ calc = NoCalc
    /\ CtlIdle
    /\ \E k \in cidr.CIDRMask .. Min(32, cidr.CIDRMask + ExhaustDepth) :
           scen = [phase |-> "alloc", k |-> k, calls |-> 0]

ExhaustAlloc ==
    /\ ~crashed
    /\ scen.phase = "alloc"
    /\ DoAlloc(scen.k)
    /\ scen' = [scen EXCEPT !.calls = @ + 1,
                            !.phase = IF last'.err = "nil" THEN "alloc"
                                                           ELSE "exhausted"]
    /\ UNCHANGED <<cidr, calc, nvsdc, vsd, chans, ev, boot>>

ExhaustFree ==
    /\ ~crashed
    /\ scen.phase = "exhausted"
    /\ \E s \in BagToSet(held) : DoFree("FreeHeld", s)
    /\ scen' = [scen EXCEPT !.phase = "freed"]
    /\ UNCHANGED <<cidr, calc, nvsdc, vsd, chans, ev, boot>>

ExhaustRealloc ==
    /\ ~crashed
    /\ scen.phase = "freed"
    /\ DoAlloc(scen.k)
    /\ scen' = [scen EXCEPT !.phase = "done"]
    /\ UNCHANGED <<cidr, calc, nvsdc, vsd, chans, ev, boot>>

NextExhaust == ExhaustAlloc \/ ExhaustFree \/ ExhaustRealloc

SpecExhaust == InitExhaust /\ [][NextExhaust]_vars

---------------------------------------------------------------------------
(* Subnet arithmetic on its own: Split, Merge of the two halves, and Merge   *)
(* of two given subnets.                                                     *)

InitArith ==
    /\ pool = EmptyPool
    /\ held = EmptyBag
    /\ cidr = NilSubnet
    /\ last = NoCall
    /\ crashed = FALSE
    /\ scen = NoScen
    /\ CtlIdle
    /\ \E a \in TestSubnets :
       \E b \in {t \in TestSubnets : t.CIDRMask \in {a.CIDRMask - 1, a.CIDRMask,
                                                     a.CIDRMask + 1}} :
           calc = [NoCalc EXCEPT !.op = "input", !.a = a, !.b = b]

\* lo, hi := a.Split()
SplitCall ==
    /\ calc.op = "input"
    /\ LET r == Split(calc.a)
       IN  calc' = [calc EXCEPT !.op = "Split", !.lo = r.lo, !.hi = r.hi,
                                !.err = r.err]
    /\ UNCHANGED <<pool, held, cidr, last, crashed, scen, nvsdc, vsd, chans, ev, boot>>

\* Merge(lo, hi) of the halves Split returned
MergeHalves ==
    /\ calc.op = "Split" /\ calc.err = "nil"
    /\ LET r == Merge(calc.lo, calc.hi)
       IN  calc' = [calc EXCEPT !.op = "SplitMerge", !.out = r.subnet,
                                !.err = r.err]
    /\ UNCHANGED <<pool, held, cidr, last, crashed, scen, nvsdc, vsd, chans, ev, boot>>

\* Merge(a, b)
MergeCall ==
    /\ calc.op = "input"
    /\ LET r == Merge(calc.a, calc.b)
       IN  calc' = [calc EXCEPT !.op = "Merge", !.out = r.subnet, !.err = r.err]
    /\ UNCHANGED <<pool, held, cidr, last, crashed, scen, nvsdc, vsd, chans, ev, boot>>

\* n := a.Compare(b) and back := b.Compare(a)
CompareCall ==
    /\ calc.op = "input"
    /\ calc.a.CIDRMask \in 0..32 /\ calc.b.CIDRMask \in 0..32
    /\ LET r == Compare(calc.a, calc.b)
           q == Compare(calc.b, calc.a)
       IN  calc' = [calc EXCEPT !.op = "Compare", !.n = r.n, !.back = q.n,
                                !.err = IF r.panic \/ q.panic THEN "panic" ELSE "nil"]
    /\ UNCHANGED <<pool, held, cidr, last, crashed, scen, nvsdc, vsd, chans, ev, boot>>

NextArith == SplitCall \/ MergeHalves \/ MergeCall \/ CompareCall

SpecArith == InitArith /\ [][NextArith]_vars

---------------------------------------------------------------------------
(* The SDN resource client.  Every operation takes the state s of the       *)
(* handler that calls it (the client's fields, the pool, the SDN, the       *)
(* number of requests sent so far) and returns the state after it, the id    *)
(* it found and its error.  The request numbered s.failAt fails: the SDN     *)
(* answers it with an unexpected status and changes nothing.                 *)

\* The namespaces the events name and the services they publish.
Namespaces == {"default", "a", "b"}

Services == {"web"}

\* nkmConfig: the cluster network and the bits of a namespace's subnet.
ControllerCIDR == Subnet(Addr(10, 128, 0, 0), 14)

SubnetSize == 8

\* The offset CreateSpecificZoneAcls adds to the allocator's value.
PriorityOffset == 300

\* The priority of the default zone's entries.
DefaultZonePriority == 1

\* The priorities of the two baseline entries of each template.
IntraZonePriority == 0

MaxPriority == 1000000000

Ret(s, id, err) == [s |-> s, id |-> id, err |-> err]

Out(s, err) == [s |-> s, err |-> err]

Tick(s) == [s EXCEPT !.calls = @ + 1]

Fails(s) == s.calls + 1 = s.failAt

\* NamespaceData{ZoneID, NetworkMacroGroupID, NetworkMacros: make(...)}
NamespaceData(zoneID, nmgid) ==
    [ZoneID |-> zoneID, NetworkMacroGroupID |-> nmgid, NetworkMacros |-> {}]

\* The zero value a lookup of an absent namespace returns: its NetworkMacros
\* is the nil map.
ZeroNamespaceData == [ZoneID |-> NoID, NetworkMacroGroupID |-> NoID,
                      NetworkMacros |-> {}]

NamespaceOf(s, name) ==
    IF name \in DOMAIN s.namespaces THEN s.namespaces[name] ELSE ZeroNamespaceData

GetZoneID(s, name) ==
    IF Fails(s) THEN Ret(Tick(s), NoID, "error")
    ELSE IF name \in DOMAIN s.v.zones THEN Ret(Tick(s), s.v.zones[name], "nil")
    ELSE Ret(Tick(s), NoID, "NotFound")

CreateZone(s, name) ==
    IF Fails(s) THEN Ret(Tick(s), NoID, "error")
    ELSE IF name \in DOMAIN s.v.zones THEN GetZoneID(Tick(s), name)
    ELSE Ret([Tick(s) EXCEPT !.v.zones = MapSet(@, name, s.v.nextID),
                             !.v.nextID = @ + 1],
             s.v.nextID, "nil")

\* The SDN deletes a zone together with the subnets in it.
DeleteZone(s, id) ==
    IF Fails(s) THEN Out(Tick(s), "error")
    ELSE IF \E n \in DOMAIN s.v.zones : s.v.zones[n] = id
    THEN Out([Tick(s) EXCEPT
                 !.v.zones = [n \in {k \in DOMAIN @ : @[k] # id} |-> @[n]],
                 !.v.subnets = {x \in @ : x.zone # id}],
             "nil")
    ELSE Out(Tick(s), "error")

\* A subnet's id; its natural key is its address within its zone.
SubnetID(zoneID, subnet) == <<zoneID, subnet.Address>>

\* The name HandleNsEvent gives the subnet of a namespace: name + "-0".
SubnetName(name) == <<name, "-0">>

GetSubnetID(s, zoneID, subnet) ==
    IF Fails(s) THEN Ret(Tick(s), NoID, "error")
    ELSE IF \E x \in s.v.subnets : x.ID = SubnetID(zoneID, subnet)
    THEN Ret(Tick(s), SubnetID(zoneID, subnet), "nil")
    ELSE Ret(Tick(s), NoID, "error")

CreateSubnet(s, name, zoneID, subnet) ==
    IF Fails(s) THEN Ret(Tick(s), NoID, "error")
    ELSE IF \A n \in DOMAIN s.v.zones : s.v.zones[n] # zoneID
    THEN Ret(Tick(s), NoID, "error")
    ELSE IF \E x \in s.v.subnets : x.ID = SubnetID(zoneID, subnet)
    THEN GetSubnetID(Tick(s), zoneID, subnet)
    ELSE Ret([Tick(s) EXCEPT !.v.subnets = @ \cup
                 {[ID |-> SubnetID(zoneID, subnet), zone |-> zoneID,
                   name |-> name, subnet |-> subnet]}],
             SubnetID(zoneID, subnet), "nil")

DeleteSubnet(s, id) ==
    IF Fails(s) THEN Out(Tick(s), "error")
    ELSE IF \E x \in s.v.subnets : x.ID = id
    THEN Out([Tick(s) EXCEPT !.v.subnets = {x \in @ : x.ID # id}], "nil")
    ELSE Out(Tick(s), "error")

GetNetworkMacroGroupID(s, nmgName) ==
    IF Fails(s) THEN Ret(Tick(s), NoID, "error")
    ELSE IF nmgName \in DOMAIN s.v.groups
    THEN Ret(Tick(s), s.v.groups[nmgName], "nil")
    ELSE Ret(Tick(s), NoID, "NotFound")

CreateNetworkMacroGroup(s, zoneName) ==
    IF Fails(s) THEN Ret(Tick(s), NoID, "error")
    ELSE IF zoneName \in DOMAIN s.v.groups
    THEN GetNetworkMacroGroupID(Tick(s), zoneName)
    ELSE Ret([Tick(s) EXCEPT !.v.groups = MapSet(@, zoneName, s.v.nextID),
                             !.v.nextID = @ + 1],
             s.v.nextID, "nil")

DeleteNetworkMacroGroup(s, networkMacroGroupID) ==
    IF Fails(s) THEN Out(Tick(s), "error")
    ELSE IF \E n \in DOMAIN s.v.groups : s.v.groups[n] = networkMacroGroupID
    THEN Out([Tick(s) EXCEPT !.v.groups =
                 [n \in {k \in DOMAIN @ : @[k] # networkMacroGroupID} |-> @[n]],
                 !.v.members = {x \in @ : x[1] # networkMacroGroupID}],
             "nil")
    ELSE Out(Tick(s), "error")

\* api.VsdAclEntry: the fields that tell the generated entries apart.
AclEntry(locationID, networkID, priority) ==
    [LocationID |-> locationID, NetworkID |-> networkID, Priority |-> priority]

\* The entry as the SDN stores it in the ingress or the egress template.
Stored(ingress, aclEntry) ==
    [ingress |-> ingress, Priority |-> aclEntry.Priority,
     LocationID |-> aclEntry.LocationID, NetworkID |-> aclEntry.NetworkID]

\* The stored entries of a template that match aclEntry in all but priority.
Matching(s, ingress, aclEntry) ==
    {x \in s.v.acls : /\ x.ingress = ingress
                      /\ x.LocationID = aclEntry.LocationID
                      /\ x.NetworkID = aclEntry.NetworkID}

\* The template id and the direction choose the URL: the SDN knows the
\* ingress template under the ingress endpoint and its id, and the egress
\* template under the egress endpoint and its id.
TemplateKind(ingress) ==
    IF ingress THEN "ingressacltemplates" ELSE "egressacltemplates"

HasTemplate(s, templateID, ingress) ==
    /\ TemplateKind(ingress) \in DOMAIN s.v.infra
    /\ s.v.infra[TemplateKind(ingress)] = templateID

\* A filtered GET: the first matching entry, NotFound on an empty list.
GetAclEntry(s, templateID, ingress, aclEntry) ==
    IF Fails(s) \/ ~HasTemplate(s, templateID, ingress)
    THEN Ret(Tick(s), NoID, "error")
    ELSE IF Matching(s, ingress, aclEntry) = {}
    THEN Ret(Tick(s), NoID, "NotFound")
    ELSE Ret(Tick(s),
             CHOOSE x \in Matching(s, ingress, aclEntry) :
                 \A y \in Matching(s, ingress, aclEntry) : x.Priority <= y.Priority,
             "nil")

\* The payload is sent as it is.  Priorities are unique within a template:
\* the SDN answers conflict for a priority in use, and the client then looks
\* the entry up.
CreateAclEntry(s, templateID, ingress, aclEntry) ==
    IF Fails(s) \/ ~HasTemplate(s, templateID, ingress)
    THEN Ret(Tick(s), NoID, "error")
    ELSE IF \E x \in s.v.acls : x.ingress = ingress /\ x.Priority = aclEntry.Priority
    THEN GetAclEntry(Tick(s), templateID, ingress, aclEntry)
    ELSE Ret([Tick(s) EXCEPT !.v.acls = @ \cup {Stored(ingress, aclEntry)}],
             Stored(ingress, aclEntry), "nil")

DeleteAclEntry(s, ingress, acl) ==
    IF Fails(s) THEN Out(Tick(s), "error")
    ELSE IF acl \in s.v.acls
    THEN Out([Tick(s) EXCEPT !.v.acls = @ \ {acl}], "nil")
    ELSE Out(Tick(s), "error")

\* A network macro's natural key names its service.
GetNetworkMacroID(s, namespace, service) ==
    IF Fails(s) THEN Ret(Tick(s), NoID, "error")
    ELSE IF <<namespace, service>> \in s.v.macros
    THEN Ret(Tick(s), <<namespace, service>>, "nil")
    ELSE Ret(Tick(s), NoID, "NotFound")

CreateNetworkMacro(s, namespace, service) ==
    IF Fails(s) THEN Ret(Tick(s), NoID, "error")
    ELSE IF <<namespace, service>> \in s.v.macros
    THEN GetNetworkMacroID(Tick(s), namespace, service)
    ELSE Ret([Tick(s) EXCEPT !.v.macros = @ \cup {<<namespace, service>>}],
             <<namespace, service>>, "nil")

DeleteNetworkMacro(s, networkMacroID) ==
    IF Fails(s) THEN Out(Tick(s), "error")
    ELSE IF networkMacroID \in s.v.macros
    THEN Out([Tick(s) EXCEPT !.v.macros = @ \ {networkMacroID},
                             !.v.members = {x \in @ : x[2] # networkMacroID}],
             "nil")
    ELSE Out(Tick(s), "error")

\* PUT of a macro into a macro group: the group must exist.  The SDN answers
\* conflict for a macro that is a member already, which is success.
AddToGroup(s, nmgID, networkMacroID) ==
    IF Fails(s) THEN Out(Tick(s), "error")
    ELSE IF \E n \in DOMAIN s.v.groups : s.v.groups[n] = nmgID
    THEN Out([Tick(s) EXCEPT !.v.members = @ \cup {<<nmgID, networkMacroID>>}],
             "nil")
    ELSE Out(Tick(s), "error")

---------------------------------------------------------------------------
(* The ACL priority allocator and the per-zone ACLs. *)

\* The allocator without its deferred increment.
NextAvailablePriorityStuck(s) ==
    [s   |-> [s EXCEPT !.handouts = @ + 1],
     val |-> s.nextAvailablePriority]

\* defer Increment; return nextAvailablePriority
NextAvailablePriority(s) ==
    [s   |-> [s EXCEPT !.nextAvailablePriority = @ + 1, !.handouts = @ + 1],
     val |-> s.nextAvailablePriority]

SetNextAvailablePriority(s, val) == [s EXCEPT !.nextAvailablePriority = val]

\* if nsd, exists := namespaces[name]; exists { nsd.NetworkMacroGroupID = nmgid }
\* changes a copy; an absent namespace gets its record.
RecordGroup(s, name, zoneID, nmgid) ==
    IF name \in DOMAIN s.namespaces THEN s
    ELSE [s EXCEPT !.namespaces = MapSet(@, name, NamespaceData(zoneID, nmgid))]

\* The priority of the egress entry: the entry of the ingress call is sent again.
EgressPriority(aclEntry) == aclEntry.Priority

\* Both CreateAclEntry calls of a zone, and what follows each that succeeds.
CreateBoth(s, aclEntry, specific) ==
    LET i == CreateAclEntry(s, s.ingressAclTemplateID, TRUE, aclEntry)
    IN  IF i.err # "nil" THEN Out(i.s, "error")
        ELSE LET s1 == IF specific
                       THEN SetNextAvailablePriority(i.s, aclEntry.Priority + 1)
                       ELSE i.s
                 eg == [aclEntry EXCEPT !.Priority = EgressPriority(aclEntry)]
                 e  == CreateAclEntry(s1, s1.egressAclTemplateID, FALSE, eg)
             IN  IF e.err # "nil" THEN Out(e.s, "error")
                 ELSE Out(IF specific
                          THEN SetNextAvailablePriority(e.s, eg.Priority + 1)
                          ELSE e.s,
                          "nil")

CreateDefaultZoneAcls(s, zoneID) ==
    LET g == CreateNetworkMacroGroup(s, "default")
    IN  IF g.err # "nil" THEN Out(g.s, "error")
        ELSE CreateBoth(RecordGroup(g.s, "default", zoneID, g.id),
                        AclEntry(NoID, g.id, DefaultZonePriority), FALSE)

CreateSpecificZoneAcls(s, zoneName, zoneID) ==
    LET g == CreateNetworkMacroGroup(s, zoneName)
    IN  IF g.err # "nil" THEN Out(g.s, "error")
        ELSE LET s1 == RecordGroup(g.s, zoneName, zoneID, g.id)
                 h  == NextAvailablePriority(s1)
                 aclEntry == AclEntry(s1.namespaces[zoneName].ZoneID, g.id,
                                      PriorityOffset + h.val)
             IN  CreateBoth([h.s EXCEPT !.given = Append(@, aclEntry.Priority)],
                            aclEntry, TRUE)

\* GetAclEntry and, when it found the entry, DeleteAclEntry.  When the entry
\* is not found the function returns the error of the lookup.
DeleteOne(s, ingress, aclEntry) ==
    LET g == GetAclEntry(s, IF ingress THEN s.ingressAclTemplateID
                               ELSE s.egressAclTemplateID,
                         ingress, aclEntry)
    IN  IF g.err = "nil" THEN DeleteAclEntry(g.s, ingress, g.id)
        ELSE Out(g.s, "error")

\* The macro group of a namespace is deleted when its record names one;
\* clearing the id afterwards changes a copy of the record.
DeleteGroupOf(s, name) ==
    IF NamespaceOf(s, name).NetworkMacroGroupID # NoID
    THEN DeleteNetworkMacroGroup(s, NamespaceOf(s, name).NetworkMacroGroupID)
    ELSE Out(s, "nil")

DeleteZoneAcls(s, name, aclEntry) ==
    LET i == DeleteOne(s, TRUE, aclEntry)
    IN  IF i.err # "nil" THEN i
        ELSE LET e == DeleteOne(i.s, FALSE, aclEntry)
             IN  IF e.err # "nil" THEN e ELSE DeleteGroupOf(e.s, name)

DeleteSpecificZoneAcls(s, zoneName) ==
    DeleteZoneAcls(s, zoneName,
                   AclEntry(NamespaceOf(s, zoneName).ZoneID,
                            NamespaceOf(s, zoneName).NetworkMacroGroupID, 0))

DeleteDefaultZoneAcls(s, zoneID) ==
    DeleteZoneAcls(s, "default",
                   AclEntry(NoID, NamespaceOf(s, "default").NetworkMacroGroupID, 0))

---------------------------------------------------------------------------
(* The reconciler: HandleNsEvent and HandleServiceEvent. *)

CreateZoneAcls(s, name, zoneID) ==
    IF name = "default" THEN CreateDefaultZoneAcls(s, zoneID)
    ELSE CreateSpecificZoneAcls(s, name, zoneID)

DeleteAcls(s, name, zoneID) ==
    IF name = "default" THEN DeleteDefaultZoneAcls(s, zoneID)
    ELSE DeleteSpecificZoneAcls(s, name)

\* nvsdc.zones[name] = zoneID: a write to a map that was never made panics.
RecordZone(s, name, zoneID) ==
    IF s.zones.made
    THEN Out([s EXCEPT !.zones.map = MapSet(@, name, zoneID)], "nil")
    ELSE Out(s, "panic")

\* pool.Free of a subnet the handler gives back; its error is not looked at.
\* A panic in Compare ends the handler.
FreeSubnet(s, subnet, err) ==
    LET f == Free(s.pool, subnet)
    IN  Out([s EXCEPT !.pool = f.pool], IF f.err = "panic" THEN "panic" ELSE err)

\* Added, namespace not in nvsdc.namespaces.
AddedUntracked(s, name) ==
    LET z == CreateZone(s, name)
    IN  IF z.err # "nil" THEN Out(z.s, "error")
        ELSE LET w == RecordZone(z.s, name, z.id)
             IN  IF w.err # "nil" THEN w
        ELSE LET a == Alloc(w.s.pool, 32 - w.s.subnetSize)
             IN  IF a.err # "nil"
                 THEN Out([w.s EXCEPT !.pool = a.pool],
                          IF a.err = "panic" THEN "panic" ELSE "error")
        ELSE LET c == CreateSubnet([w.s EXCEPT !.pool = a.pool],
                                   SubnetName(name), z.id, a.subnet)
             IN  IF c.err # "nil" THEN FreeSubnet(c.s, a.subnet, "error")
        ELSE CreateZoneAcls(
                 [c.s EXCEPT !.subnets = MapSet(@, z.id,
                                 [SubnetID |-> c.id, Subnet |-> a.subnet])],
                 name, z.id)

\* Added, namespace in nvsdc.namespaces.
AddedTracked(s, name) ==
    LET z == GetZoneID(s, name)
    IN  IF z.err # "nil" THEN Out(z.s, "error")
        ELSE LET r == CreateZoneAcls(z.s, name, z.id)
             IN  IF r.err # "nil" THEN r
                 ELSE Out([r.s EXCEPT !.namespaces =
                              MapSet(@, name, NamespaceData(z.id, NoID))],
                          "nil")

\* Mutant of DeleteSubnets: the list of the zone is kept after its block was
\* freed.
DeleteSubnetsKeepsList(s, zoneID) ==
    IF zoneID \in DOMAIN s.subnets
    THEN LET d == DeleteSubnet(s, s.subnets[zoneID].SubnetID)
             f == Free(d.s.pool, s.subnets[zoneID].Subnet)
         IN  Out([d.s EXCEPT !.pool = f.pool],
                 IF f.err = "panic" THEN "panic" ELSE "nil")
    ELSE Out(s, "nil")

\* The loop over the zone's subnet list: DeleteSubnet and pool.Free, whose
\* errors are warnings, then delete(nvsdc.subnets, zoneID).
DeleteSubnets(s, zoneID) ==
    IF zoneID \in DOMAIN s.subnets
    THEN LET d == DeleteSubnet(s, s.subnets[zoneID].SubnetID)
             f == Free(d.s.pool, s.subnets[zoneID].Subnet)
         IN  Out([d.s EXCEPT !.pool = f.pool,
                             !.subnets = MapDelete(@, zoneID)],
                 IF f.err = "panic" THEN "panic" ELSE "nil")
    ELSE Out(s, "nil")

\* Deleted of a tracked namespace that forgets the zone itself.
DeletedTrackedKeepsZone(s, name) ==
    LET zone == s.namespaces[name]
        d == DeleteAcls(s, name, zone.ZoneID)
    IN  IF d.err # "nil" THEN d
        ELSE LET u == DeleteSubnets(d.s, zone.ZoneID)
             IN  IF u.err # "nil" THEN u
                 ELSE Out([u.s EXCEPT !.namespaces = MapDelete(@, name)], "nil")

\* Deleted, namespace in nvsdc.namespaces.
DeletedTracked(s, name) ==
    LET zone == s.namespaces[name]
        d == DeleteAcls(s, name, zone.ZoneID)
    IN  IF d.err # "nil" THEN d
        ELSE LET u == DeleteSubnets(d.s, zone.ZoneID)
             IN  IF u.err # "nil" THEN u
                 ELSE DeleteZone([u.s EXCEPT !.namespaces = MapDelete(@, name)],
                                 zone.ZoneID)

\* Deleted, namespace not in nvsdc.namespaces.
DeletedUntracked(s, name) ==
    LET z == GetZoneID(s, name)
    IN  IF z.err # "nil" THEN Out(z.s, "error")
        ELSE LET d == DeleteAcls(z.s, name, z.id)
             IN  IF d.err # "nil" THEN d ELSE DeleteZone(d.s, z.id)

HandleNsEvent(s, type, name) ==
    IF type = "Added"
    THEN IF name \notin DOMAIN s.namespaces THEN AddedUntracked(s, name)
         ELSE AddedTracked(s, name)
    ELSE IF name \in DOMAIN s.namespaces THEN DeletedTracked(s, name)
         ELSE DeletedUntracked(s, name)

\* namespaces[ns].NetworkMacros[service] = id: the NetworkMacros of an absent
\* namespace is a nil map, and the write panics.
RecordMacro(s, namespace, service) ==
    IF namespace \in DOMAIN s.namespaces
    THEN Out([s EXCEPT !.namespaces[namespace].NetworkMacros = @ \cup {service}],
             "nil")
    ELSE Out(s, "panic")

\* The target macro group when the zone annotation is not compared with the
\* namespace of the event.
TargetGroupAnyZone(s, namespace, annotations) ==
    LET named == GetNetworkMacroGroupID(s, annotations["network-macro-group.name"])
        g == IF "network-macro-group.id" \in DOMAIN annotations
             THEN Ret(s, annotations["network-macro-group.id"], "nil")
             ELSE IF "network-macro-group.name" \in DOMAIN annotations
             THEN IF named.err # "nil" THEN Ret(named.s, NoID, "annotation")
                  ELSE named
             ELSE Ret(s, NoID, "nil")
    IN  IF g.err # "nil" THEN g
        ELSE IF /\ "zone" \in DOMAIN annotations
                /\ annotations["zone"] \notin DOMAIN g.s.namespaces
                /\ g.id = NoID
        THEN Ret(g.s, NoID, "annotation")
        ELSE IF g.id = NoID
        THEN Ret(g.s, NamespaceOf(g.s, namespace).NetworkMacroGroupID, "nil")
        ELSE g

\* The macro group a service's macro is put into: the id annotation, else the
\* name annotation resolved by the SDN; then the zone annotation is looked
\* at, whatever was found so far; then the group of the event's namespace.
TargetGroup(s, namespace, annotations) ==
    LET named == GetNetworkMacroGroupID(s, annotations["network-macro-group.name"])
        g == IF "network-macro-group.id" \in DOMAIN annotations
             THEN Ret(s, annotations["network-macro-group.id"], "nil")
             ELSE IF "network-macro-group.name" \in DOMAIN annotations
             THEN IF named.err # "nil" THEN Ret(named.s, NoID, "annotation")
                  ELSE named
             ELSE Ret(s, NoID, "nil")
    IN  IF g.err # "nil" THEN g
        ELSE IF /\ "zone" \in DOMAIN annotations
                /\ annotations["zone"] \in DOMAIN g.s.namespaces
                /\ annotations["zone"] # namespace
        THEN Ret(g.s, NoID, "annotation")
        ELSE IF /\ "zone" \in DOMAIN annotations
                /\ annotations["zone"] \notin DOMAIN g.s.namespaces
                /\ g.id = NoID
        THEN Ret(g.s, NoID, "annotation")
        ELSE IF g.id = NoID
        THEN Ret(g.s, NamespaceOf(g.s, namespace).NetworkMacroGroupID, "nil")
        ELSE g

ServiceAdded(s, namespace, service, annotations) ==
    LET g == TargetGroup(s, namespace, annotations)
    IN  IF g.err # "nil" THEN Out(g.s, g.err)
        ELSE LET m == CreateNetworkMacro(g.s, namespace, service)
             IN  IF m.err # "nil" THEN Out(m.s, "nil")
        ELSE LET w == RecordMacro(m.s, namespace, service)
             IN  IF w.err # "nil" THEN w ELSE AddToGroup(w.s, g.id, m.id)

\* delete(NetworkMacros, nmID) names the macro's id, and the map's keys are
\* service names: the entry stays.
ServiceDeleted(s, namespace, service) ==
    IF /\ namespace \in DOMAIN s.namespaces
       /\ service \in s.namespaces[namespace].NetworkMacros
    THEN DeleteNetworkMacro(s, <<namespace, service>>)
    ELSE Out(s, "nil")

HandleServiceEvent(s, type, namespace, service, annotations) ==
    IF type = "Added" THEN ServiceAdded(s, namespace, service, annotations)
    ELSE ServiceDeleted(s, namespace, service)

---------------------------------------------------------------------------
(* NuageVsdClient.Init: the requests that set the SDN up for the cluster.   *)
(* The SDN keeps one object of each kind for it: the enterprise, its admin  *)
(* group and admin user, the domain template, the domain and the two ACL    *)
(* templates.  s.get is what the SDN answers to the next filtered GET: the  *)
(* object it holds ("found"), an empty list or another object.              *)

\* The state a call starts from: the client c, the pool p and the SDN v.
BeginWith(c, p, v, failAt) ==
    [namespaces |-> c.namespaces, zones |-> c.zones, subnets |-> c.subnets,
     nextAvailablePriority |-> c.nextAvailablePriority,
     enterpriseID |-> c.enterpriseID, domainID |-> c.domainID,
     ingressAclTemplateID |-> c.ingressAclTemplateID,
     egressAclTemplateID |-> c.egressAclTemplateID,
     subnetSize |-> c.subnetSize,
     pool |-> p, v |-> v, calls |-> 0, failAt |-> failAt,
     get |-> "found", got |-> "none",
     handouts |-> 0, given |-> << >>]

\* GET .../me: the API key.
GetAuthorizationToken(s) ==
    IF Fails(s) THEN Out(Tick(s), "error") ELSE Out(Tick(s), "nil")

\* result[0] of a filtered GET for the object of a kind.
Answer(s, kind) ==
    IF s.get = "other" THEN [Name |-> "other", ID |-> s.v.nextID]
    ELSE IF s.get = "found" /\ kind \in DOMAIN s.v.infra
    THEN [Name |-> kind, ID |-> s.v.infra[kind]]
    ELSE [Name |-> "", ID |-> NoID]

\* GetEnterpriseID, GetAdminID, GetAdminGroupID, GetDomainTemplateID,
\* GetDomainID, GetIngressAclTemplateID, GetEgressAclTemplateID.
GetIDByName(s, kind) ==
    IF Fails(s) THEN Ret(Tick(s), NoID, "error")
    ELSE LET result == Answer(s, kind)
             s1 == [Tick(s) EXCEPT !.get = "found"]
         IN  IF result.Name = kind THEN Ret(s1, result.ID, "nil")
             ELSE IF result.Name = "" THEN Ret(s1, NoID, "NotFound")
             ELSE Ret(s1, NoID, "Mismatch")

\* POST; 201: the new id; 409: the id the filtered GET finds; else an error.
CreateByName(s, kind) ==
    IF Fails(s) THEN Ret(Tick(s), NoID, "error")
    ELSE IF kind \in DOMAIN s.v.infra
    THEN LET g == GetIDByName(Tick(s), kind)
         IN  Ret([g.s EXCEPT !.got = g.err], g.id, g.err)
    ELSE Ret([Tick(s) EXCEPT !.v.infra = MapSet(@, kind, s.v.nextID),
                             !.v.nextID = @ + 1],
             s.v.nextID, "nil")

\* The SDN gives a new enterprise its admin group.
CreateEnterprise(s) ==
    LET r == CreateByName(s, "enterprises")
    IN  IF r.err = "nil" /\ "groups" \notin DOMAIN r.s.v.infra
        THEN Ret([r.s EXCEPT !.v.infra = MapSet(@, "groups", r.s.v.nextID),
                             !.v.nextID = @ + 1],
                 r.id, "nil")
        ELSE r

\* 409: the error of GetAdminID is logged and adminId stays "".  Then the
\* admin group is looked up and adminId is PUT into it.
CreateAdminUser(s) ==
    IF Fails(s) THEN Ret(Tick(s), NoID, "error")
    ELSE LET u == IF "users" \in DOMAIN s.v.infra
                  THEN LET g == GetIDByName(Tick(s), "users")
                       IN  Ret([g.s EXCEPT !.got = g.err], g.id, "nil")
                  ELSE Ret([Tick(s) EXCEPT
                               !.v.infra = MapSet(@, "users", s.v.nextID),
                               !.v.nextID = @ + 1],
                           s.v.nextID, "nil")
             group == GetIDByName(u.s, "groups")
         IN  IF group.err # "nil" THEN Ret(group.s, NoID, "error")
             ELSE IF Fails(group.s) THEN Ret(Tick(group.s), NoID, "error")
             ELSE Ret([Tick(group.s) EXCEPT !.v.admins = @ \cup {u.id}],
                      u.id, "nil")

\* POST of the license file, or GET of the licenses when no file is given.
InstallLicense(s) ==
    IF Fails(s) THEN Out(Tick(s), "error") ELSE Out(Tick(s), "nil")

LoginAsAdmin(s) == GetAuthorizationToken(s)

CreateDomainTemplate(s) == CreateByName(s, "domaintemplates")

CreateDomain(s) == CreateByName(s, "domains")

\* The baseline entries name a network type and no network: these values
\* stand in the NetworkID of the model's entries for ENDPOINT_ZONE and
\* ENDPOINT_DOMAIN.
EndpointZone == -1

EndpointDomain == -2

\* The error of the second entry is logged and nil is returned.
CreateIngressAclEntries(s) ==
    LET a == CreateAclEntry(s, s.ingressAclTemplateID, TRUE,
                            AclEntry(NoID, EndpointZone, IntraZonePriority))
    IN  IF a.err # "nil" THEN Out(a.s, "error")
        ELSE Out(CreateAclEntry(a.s, a.s.ingressAclTemplateID, TRUE,
                                AclEntry(NoID, EndpointDomain, MaxPriority)).s,
                 "nil")

\* The second entry is sent with the id of the ingress template.
CreateEgressAclEntries(s) ==
    LET a == CreateAclEntry(s, s.egressAclTemplateID, FALSE,
                            AclEntry(NoID, EndpointZone, IntraZonePriority))
    IN  IF a.err # "nil" THEN Out(a.s, "error")
        ELSE Out(CreateAclEntry(a.s, a.s.ingressAclTemplateID, FALSE,
                                AclEntry(NoID, EndpointDomain, MaxPriority)).s,
                 "nil")

CreateIngressAclTemplate(s) ==
    LET r == CreateByName(s, "ingressacltemplates")
    IN  IF r.err # "nil" THEN Ret(r.s, NoID, "error")
        ELSE LET e == CreateIngressAclEntries(
                          [r.s EXCEPT !.ingressAclTemplateID = r.id])
             IN  IF e.err # "nil" THEN Ret(e.s, NoID, "error")
                 ELSE Ret(e.s, r.id, "nil")

CreateEgressAclTemplate(s) ==
    LET r == CreateByName(s, "egressacltemplates")
    IN  IF r.err # "nil" THEN Ret(r.s, NoID, "error")
        ELSE LET e == CreateEgressAclEntries(
                          [r.s EXCEPT !.egressAclTemplateID = r.id])
             IN  IF e.err # "nil" THEN Ret(e.s, NoID, "error")
                 ELSE Ret(e.s, r.id, "nil")

\* The kind of object each request of Init is about, in the order of Init.
InitSteps == <<"me", "enterprises", "users", "licenses", "me",
               "domaintemplates", "domains",
               "ingressacltemplates", "egressacltemplates">>

\* The k-th request of Init and the field its result is assigned to.
InitStep(s, k) ==
    CASE k = 1 -> LET r == GetAuthorizationToken(s) IN Ret(r.s, NoID, r.err)
      [] k = 2 -> LET r == CreateEnterprise(s)
                  IN  Ret([r.s EXCEPT !.enterpriseID = r.id], r.id, r.err)
      [] k = 3 -> CreateAdminUser(s)
      [] k = 4 -> LET r == InstallLicense(s) IN Ret(r.s, NoID, r.err)
      [] k = 5 -> LET r == LoginAsAdmin(s) IN Ret(r.s, NoID, r.err)
      [] k = 6 -> CreateDomainTemplate(s)
      [] k = 7 -> LET r == CreateDomain(s)
                  IN  Ret([r.s EXCEPT !.domainID = r.id], r.id, r.err)
      [] k = 8 -> CreateIngressAclTemplate(s)
      [] k = 9 -> CreateEgressAclTemplate(s)

\* subnetSize as Init leaves it: 8 for a length outside 0..32, and
\* glog.Fatalf, which ends the process, for a size the cluster network
\* cannot hold.
SubnetSizeOf(subnetLength, mask) ==
    LET size == IF subnetLength < 0 \/ subnetLength > 32 THEN SubnetSize
                ELSE subnetLength
    IN  IF size > 32 - mask
        THEN [fatal |-> TRUE, size |-> size]
        ELSE [fatal |-> FALSE, size |-> size]

\* Init with every request succeeding, from the k-th request on.
RECURSIVE InitFrom(_, _)
InitFrom(s, k) ==
    IF k > Len(InitSteps) THEN s ELSE InitFrom(InitStep(s, k).s, k + 1)

\* The SDN and the client after Init on a fresh SDN.
ReadyState ==
    InitFrom(BeginWith([NoClient EXCEPT !.subnetSize = SubnetSize],
                       EmptyPool, EmptyVsd, 0), 1)

ReadyVsd == ReadyState.v

ReadyClient ==
    [NoClient EXCEPT !.enterpriseID = ReadyState.enterpriseID,
                     !.domainID = ReadyState.domainID,
                     !.ingressAclTemplateID = ReadyState.ingressAclTemplateID,
                     !.egressAclTemplateID = ReadyState.egressAclTemplateID,
                     !.subnetSize = ReadyState.subnetSize,
                     !.running = TRUE]

---------------------------------------------------------------------------
(* Run: the loop that receives namespace and service events. *)

\* The producers send at most this many events.
MaxEvents == 3
\* At most this many events of a run meet a failing SDN request.
MaxFailures == 1
\* The request of a handler that fails is one of its first MaxCalls.
MaxCalls == 7

\* 0: no request of the event fails.
FailChoices == 0..MaxCalls

\* The process is started again at most this many times.
MaxRestarts == 1

\* The struct declares zones and Init makes namespaces and subnets only; the
\* declaration lacks fields the methods use, so the client's construction is
\* not all in the source.  Both a nil and a made zones map are kept.
ZonesAtInit == {[made |-> FALSE, map |-> EmptyMap], [made |-> TRUE, map |-> EmptyMap]}

\* The state a handler starts from.
Begin(failAt) == BeginWith(nvsdc, pool, vsd, failAt)

\* The state a handler leaves.  A panic ends the process, and Run with it.
Handled(kind, type, name, service, annotations, r) ==
    /\ nvsdc' = [nvsdc EXCEPT !.namespaces = r.s.namespaces,
                              !.zones = r.s.zones,
                              !.subnets = r.s.subnets,
                              !.nextAvailablePriority = r.s.nextAvailablePriority,
                              !.running = r.err # "panic"]
    /\ pool' = r.s.pool
    /\ vsd' = r.s.v
    /\ chans' = [chans EXCEPT !.failures =
                    IF r.s.failAt # 0 /\ r.s.calls >= r.s.failAt THEN @ + 1 ELSE @]
    /\ ev' = [n |-> ev.n + 1, kind |-> kind, type |-> type, name |-> name,
              service |-> service, annotations |-> annotations,
              tracked |-> name \in DOMAIN nvsdc.namespaces,
              failed |-> r.s.failAt # 0 /\ r.s.calls >= r.s.failAt,
              err |-> r.err,
              handouts |-> ev.handouts + r.s.handouts,
              given |-> ev.given \o r.s.given,
              pre |-> vsd]
    /\ UNCHANGED <<held, cidr, last, crashed, calc, scen, boot>>

InitCtl ==
    /\ cidr = ControllerCIDR
    /\ pool = InitPool(cidr)
    /\ held = EmptyBag
    /\ last = NoCall
    /\ crashed = FALSE
    /\ calc = NoCalc
    /\ scen = NoScen
    /\ \E z \in ZonesAtInit : nvsdc = [ReadyClient EXCEPT !.zones = z]
    /\ vsd = ReadyVsd
    /\ chans = [NoChans EXCEPT !.limit = MaxEvents]
    /\ ev = NoEvent
    /\ boot = NoBoot

\* case nsEvent := <-nsChannel: nvsdc.HandleNsEvent(nsEvent)
RunNsEvent ==
    /\ nvsdc.running
    /\ ev.n < chans.limit
    /\ \E type \in {"Added", "Deleted"}, name \in Namespaces, failAt \in FailChoices :
           /\ failAt # 0 => chans.failures < MaxFailures
           /\ Handled("namespace", type, name, "none", EmptyMap,
                      HandleNsEvent(Begin(failAt), type, name))

\* case serviceEvent := <-serviceChannel: nvsdc.HandleServiceEvent(serviceEvent)
RunServiceEvent ==
    /\ nvsdc.running
    /\ ev.n < chans.limit
    /\ \E type \in {"Added", "Deleted"}, namespace \in Namespaces,
          service \in Services, failAt \in FailChoices :
           /\ failAt # 0 => chans.failures < MaxFailures
           /\ Handled("service", type, namespace, service, EmptyMap,
                      HandleServiceEvent(Begin(failAt), type, namespace, service,
                                         EmptyMap))

\* The annotations of a service event: any of the id of a macro group of the
\* SDN, the name of the macro group of a zone, and a zone.
Annotations(v) ==
    {i @@ n @@ z :
        i \in {EmptyMap} \cup {"network-macro-group.id" :> v.groups[g] :
                                   g \in DOMAIN v.groups},
        n \in {EmptyMap} \cup {"network-macro-group.name" :> g : g \in {"a"}},
        z \in {EmptyMap} \cup {"zone" :> x : x \in {"a", "b"}}}

\* case serviceEvent := <-serviceChannel, for a service with annotations.
RunAnnotatedServiceEvent ==
    /\ nvsdc.running
    /\ ev.n < chans.limit
    /\ \E namespace \in Namespaces, service \in Services,
          annotations \in Annotations(vsd) \ {EmptyMap}, failAt \in FailChoices :
           /\ failAt # 0 => chans.failures < MaxFailures
           /\ Handled("service", "Added", namespace, service, annotations,
                      HandleServiceEvent(Begin(failAt), "Added", namespace,
                                         service, annotations))

\* A value is sent on the stop channel.  Run has no case that receives it.
StopSend ==
    /\ nvsdc.running
    /\ ~chans.stop
    /\ chans' = [chans EXCEPT !.stop = TRUE]
    /\ UNCHANGED <<pool, held, cidr, last, crashed, calc, scen, nvsdc, vsd, ev, boot>>

NextCtl == RunNsEvent \/ RunServiceEvent \/ StopSend

SpecCtl == InitCtl /\ [][NextCtl]_vars

\* Run with services that carry annotations.
NextSvc == RunNsEvent \/ RunServiceEvent \/ RunAnnotatedServiceEvent

\* Init has run; the zones map exists.
InitSvc == InitCtl /\ nvsdc.zones.made

SpecSvc == InitSvc /\ [][NextSvc]_vars

\* The process is started again: NewNuageVsdClient makes a new client, Init
\* frees the cluster network into a new pool and finds by create-or-get the
\* objects it made the first time; the SDN is as the last run left it.
RestartCtl ==
    /\ boot.restarts < MaxRestarts
    /\ nvsdc.zones.made
    /\ nvsdc' = [ReadyClient EXCEPT !.zones = [made |-> TRUE, map |-> EmptyMap]]
    /\ pool' = InitPool(cidr)
    /\ boot' = [boot EXCEPT !.restarts = @ + 1]
    /\ ev' = [NoEvent EXCEPT !.n = ev.n]
    /\ UNCHANGED <<held, cidr, last, crashed, calc, scen, vsd, chans>>

NextRestart == RunNsEvent \/ RestartCtl

\* Run of a controller that is started again.
SpecRestart == InitSvc /\ [][NextRestart]_vars

\* Run with namespace events only, long enough for blocks to come back to
\* the pool and be handed out again.
MaxNsEvents == 5

\* nkmConfig: the cluster network with subnets of SubnetSize bits, and a small
\* one with subnets of one address.
BlockConfigs ==
    {[cidr |-> ControllerCIDR, subnetSize |-> SubnetSize],
     [cidr |-> Subnet(Addr(10, 128, 0, 0), 28), subnetSize |-> 0]}

\* Run with namespace events and failing requests, long enough for a block
\* that was freed to be handed out again.
MaxReuseEvents == 4

BlocksStart(limit) ==
    /\ \E c \in BlockConfigs :
           /\ cidr = c.cidr
           /\ nvsdc = [ReadyClient EXCEPT !.zones = [made |-> TRUE, map |-> EmptyMap],
                                          !.subnetSize = c.subnetSize]
    /\ pool = InitPool(cidr)
    /\ held = EmptyBag
    /\ last = NoCall
    /\ crashed = FALSE
    /\ calc = NoCalc
    /\ scen = NoScen
    /\ vsd = ReadyVsd
    /\ chans = [NoChans EXCEPT !.limit = limit]
    /\ ev = NoEvent
    /\ boot = NoBoot

InitBlocks == BlocksStart(MaxNsEvents)

SpecBlocks == InitBlocks /\ [][RunNsEvent]_vars

InitReuse == BlocksStart(MaxReuseEvents)

SpecReuse == InitReuse /\ [][RunNsEvent]_vars

\* Run with a stop channel that is used: the producers send few events.
MaxEventsBeforeStop == 2

InitRun ==
    /\ cidr = ControllerCIDR
    /\ pool = InitPool(cidr)
    /\ held = EmptyBag
    /\ last = NoCall
    /\ crashed = FALSE
    /\ calc = NoCalc
    /\ scen = NoScen
    /\ \E z \in ZonesAtInit : nvsdc = [ReadyClient EXCEPT !.zones = z]
    /\ vsd = ReadyVsd
    /\ chans = [NoChans EXCEPT !.limit = MaxEventsBeforeStop]
    /\ ev = NoEvent
    /\ boot = NoBoot

\* Whether and when the producers send another event is theirs to decide;
\* the value on the stop channel is sent.  Run has no step of its own that
\* the scheduler owes it: it only receives.
SpecRun == InitRun /\ [][NextCtl]_vars /\ WF_vars(StopSend)

\* The counter of a controller that has been running for long: 999999700
\* after 3322258 zones got their entries (301 each) and 42 ingress entries
\* failed (1 each).
LongRunPriority == MaxPriority - PriorityOffset

StartPriorities == {0, LongRunPriority}

\* The controller at some point of a run, with nothing tracked.
InitLongRun ==
    /\ cidr = ControllerCIDR
    /\ pool = InitPool(cidr)
    /\ held = EmptyBag
    /\ last = NoCall
    /\ crashed = FALSE
    /\ calc = NoCalc
    /\ scen = NoScen
    /\ \E p \in StartPriorities :
           nvsdc = [ReadyClient EXCEPT !.zones = [made |-> TRUE, map |-> EmptyMap],
                                      !.nextAvailablePriority = p]
    /\ vsd = ReadyVsd
    /\ chans = [NoChans EXCEPT !.limit = MaxEvents]
    /\ ev = NoEvent
    /\ boot = NoBoot

SpecLongRun == InitLongRun /\ [][NextCtl]_vars



---------------------------------------------------------------------------
(* NewNuageVsdClient: Init step by step, and the process started again.     *)

\* nkmConfig: the subnet lengths and the cluster networks of the
\* installations.
SubnetLengths == {-1, 4, 8, 19, 33}

BootCIDRs == {ControllerCIDR, Subnet(Addr(10, 128, 0, 0), 28)}

\* What the SDN answers to a filtered GET.
GetAnswers == {"found", "empty", "other"}

\* new(NuageVsdClient): every field has its zero value.
InitBoot ==
    /\ cidr \in BootCIDRs
    /\ pool = EmptyPool
    /\ held = EmptyBag
    /\ last = NoCall
    /\ crashed = FALSE
    /\ calc = NoCalc
    /\ scen = NoScen
    /\ nvsdc = NoClient
    /\ vsd = EmptyVsd
    /\ chans = NoChans
    /\ ev = NoEvent
    /\ \E n \in SubnetLengths : boot = [NoBoot EXCEPT !.subnetLength = n]

\* Init up to its first request: the subnet size, the pool, the maps.
InitConfig ==
    /\ boot.pc = 0
    /\ ~boot.fatal
    /\ LET c == SubnetSizeOf(boot.subnetLength, cidr.CIDRMask)
       IN  IF c.fatal
           THEN /\ boot' = [boot EXCEPT !.fatal = TRUE]
                /\ nvsdc' = [nvsdc EXCEPT !.subnetSize = c.size]
                /\ pool' = pool
           ELSE /\ boot' = [boot EXCEPT !.pc = 1]
                /\ nvsdc' = [nvsdc EXCEPT !.subnetSize = c.size]
                /\ pool' = InitPool(cidr)
    /\ UNCHANGED <<held, cidr, last, crashed, calc, scen, vsd, chans, ev>>

\* The next request of Init; glog.Fatal when it returns an error.  When the
\* last one has returned, NewNuageVsdClient returns and Run is started.
InitRequest ==
    /\ boot.pc \in 1..Len(InitSteps)
    /\ ~boot.fatal
    /\ \E failAt \in FailChoices, get \in GetAnswers :
           LET r == InitStep([Begin(failAt) EXCEPT !.get = get], boot.pc)
               reached == failAt # 0 /\ r.s.calls >= failAt
           IN  /\ failAt = 0 \/ reached
               /\ r.s.get = "found"
               /\ boot' = [boot EXCEPT
                              !.pc = IF r.err = "nil" THEN @ + 1 ELSE @,
                              !.fatal = r.err # "nil",
                              !.step = boot.pc,
                              !.existed = InitSteps[boot.pc] \in DOMAIN vsd.infra,
                              !.got = r.s.got,
                              !.id = r.id,
                              !.err = r.err,
                              !.failed = @ \/ reached]
               /\ nvsdc' = [nvsdc EXCEPT
                               !.enterpriseID = r.s.enterpriseID,
                               !.domainID = r.s.domainID,
                               !.ingressAclTemplateID = r.s.ingressAclTemplateID,
                               !.egressAclTemplateID = r.s.egressAclTemplateID,
                               !.running = r.err = "nil" /\ boot.pc = Len(InitSteps)]
               /\ vsd' = r.s.v
    /\ UNCHANGED <<pool, held, cidr, last, crashed, calc, scen, chans, ev>>

\* The process has ended or is ended, and is started again with the same
\* configuration against the SDN as it is.
Restart ==
    /\ boot.fatal \/ boot.pc > Len(InitSteps)
    /\ boot.restarts < MaxRestarts
    /\ boot' = [NoBoot EXCEPT !.subnetLength = boot.subnetLength,
                              !.restarts = boot.restarts + 1]
    /\ nvsdc' = NoClient
    /\ pool' = EmptyPool
    /\ UNCHANGED <<held, cidr, last, crashed, calc, scen, vsd, chans, ev>>

NextBoot == InitConfig \/ InitRequest \/ Restart

SpecBoot == InitBoot /\ [][NextBoot]_vars

---------------------------------------------------------------------------
(* What the properties are stated in: the address range of a subnet.        *)

Max(a, b) == IF a > b THEN a ELSE b

\* How many of the m mask bits fall into byte i.
BitsInByte(m, i) == Max(0, Min(8, m - 8 * i))

\* The address with everything after its first m bits cleared.
Network(address, m) ==
    [i \in 0..3 |-> address[i] - (address[i] % Pow2(8 - BitsInByte(m, i)))]

\* Two subnets overlap iff they agree on the bits of the shorter mask.
Overlap(a, b) ==
    LET m == Min(a.CIDRMask, b.CIDRMask)
    IN  Network(a.Address, m) = Network(b.Address, m)

\* The range of inner lies in the range of outer.
Contains(outer, inner) ==
    /\ outer.CIDRMask <= inner.CIDRMask
    /\ Network(inner.Address, outer.CIDRMask) = Network(outer.Address, outer.CIDRMask)

\* The two distinct halves of one /(M-1) block.
Buddies(a, b) ==
    /\ a.CIDRMask = b.CIDRMask
    /\ a.CIDRMask >= 1
    /\ Network(a.Address, a.CIDRMask - 1) = Network(b.Address, a.CIDRMask - 1)
    /\ Network(a.Address, a.CIDRMask) # Network(b.Address, a.CIDRMask)

HeldSet == BagToSet(held)

\* How often subnet s occurs in a list.
Occurrences(list, s) == Cardinality({i \in 1..Len(list) : list[i] = s})

\* The blocks of mask m that exist, free or held.
BlocksOfMask(m) ==
    Len(pool[m]) + BagCardinality([s \in {t \in HeldSet : t.CIDRMask = m} |->
                                       CopiesIn(s, held)])

\* The address space of all blocks, in units of the smallest block (mask deepest).
RECURSIVE BlockSpace(_, _)
BlockSpace(m, deepest) ==
    IF m > deepest THEN 0
    ELSE BlocksOfMask(m) * Pow2(deepest - m) + BlockSpace(m + 1, deepest)

Deepest == Min(32, cidr.CIDRMask + Depth(cidr, MaxDepth))

\* The free blocks and the held blocks are pairwise disjoint, lie in the
\* cluster CIDR and together cover it.
Conservation ==
    /\ \A m \in 0..32 : \A i \in 1..Len(pool[m]) :
          /\ Contains(cidr, pool[m][i])
          /\ \A s \in HeldSet : ~Overlap(pool[m][i], s)
          /\ \A n \in 0..32 : \A j \in 1..Len(pool[n]) :
                (m # n \/ i # j) => ~Overlap(pool[m][i], pool[n][j])
    /\ \A s \in HeldSet :
          /\ Contains(cidr, s)
          /\ CopiesIn(s, held) = 1
          /\ \A t \in HeldSet : s # t => ~Overlap(s, t)
    /\ BlockSpace(cidr.CIDRMask, Deepest) = Pow2(Deepest - cidr.CIDRMask)

---------------------------------------------------------------------------
(* Properties of the pool. *)

\* C1: when callers free only subnets they were given by Alloc and have not
\* freed yet, no two subnets held by callers overlap (and none is held twice).
C1_HeldDisjoint ==
    \A s \in HeldSet :
        /\ CopiesIn(s, held) = 1
        /\ \A t \in HeldSet : s # t => ~Overlap(s, t)

\* C1's case: subnets are held after allocations and a successful Free.
C1_Witness ==
    /\ last.op = "FreeHeld" /\ last.err = "nil"
    /\ BagCardinality(held) >= 3

\* C2: Free of a subnet that equals an entry of its bucket fails with a double
\* free error and does not insert it, wherever the equal entry sits.
C2_DoubleFreeRejected ==
    last.op = "FreeAgain" =>
        /\ last.err = "DoubleFree"
        /\ Occurrences(pool[last.subnet.CIDRMask], last.subnet) = 1

\* C3: Free of a subnet that was returned by Alloc and not freed yet succeeds
\* (no error, no crash) for every mask and whatever distinct subnets the bucket
\* holds, and afterwards the subnet is in the bucket of its mask.
C3_FreeHeldSucceeds ==
    last.op = "FreeHeld" =>
        /\ last.err = "nil"
        /\ ~crashed
        /\ Occurrences(pool[last.subnet.CIDRMask], last.subnet) = 1

\* C4 as stated: once every allocated subnet has been freed, the pool is back
\* in its initial state: Alloc of the cluster CIDR's mask returns the CIDR.
C4_Original ==
    (held = EmptyBag /\ ~crashed) =>
        LET r == Alloc(pool, cidr.CIDRMask)
        IN  r.err = "nil" /\ r.subnet = cidr

\* C4 amended: the free blocks and the held blocks are always pairwise
\* disjoint and cover exactly the cluster CIDR, so once every allocated subnet
\* has been freed the whole CIDR is free again; Free does not merge, so Alloc
\* of the CIDR's mask then succeeds (returning the CIDR) only if the CIDR block
\* was never split, and fails otherwise.
C4_Amended ==
    /\ Conservation
    /\ held = EmptyBag =>
          LET r == Alloc(pool, cidr.CIDRMask)
          IN  /\ (r.err = "nil") <=> (pool = InitPool(cidr))
              /\ r.err = "nil" => r.subnet = cidr

\* C4's case: everything was freed again after the CIDR block had been split.
C4_Witness ==
    /\ last.op = "FreeHeld" /\ last.err = "nil"
    /\ held = EmptyBag
    /\ PoolNodes(pool, 0) >= 3

\* C5: for every pool state and every k in 0..32, Alloc(k) fails iff every
\* bucket of mask <= k is empty.
C5_AllocFailsIffNoBlock ==
    \A k \in 0..32 :
        (Alloc(pool, k).err # "nil") <=> (\A j \in 0..k : pool[j] = << >>)

\* C5's case: an Alloc in range failed while smaller blocks were still free.
C5_Witness ==
    /\ last.op = "Alloc" /\ last.size \in 0..32 /\ last.err # "nil"
    /\ PoolNodes(pool, 0) >= 2

\* C6: every successful Alloc(k), from bucket k or by splitting, returns a
\* subnet of mask exactly k that lies in a block free before the call.
C6_AllocResult ==
    \A k \in 0..32 :
        LET r == Alloc(pool, k)
        IN  r.err = "nil" =>
               /\ r.subnet.CIDRMask = k
               /\ \E e \in PoolEntries(pool) : Contains(e, r.subnet)

\* C6's case: an Alloc was served by splitting a larger block twice.
C6_Witness ==
    /\ last.op = "Alloc" /\ last.err = "nil"
    /\ last.size = cidr.CIDRMask + 2
    /\ BagCardinality(held) = 1

\* C7: after any Alloc and Free calls, accepted or rejected, the pool holds no
\* two overlapping subnets, no duplicate, and bucket M holds only masks M.
C7_PoolWellFormed ==
    \A m \in 0..32 : \A i \in 1..Len(pool[m]) :
        /\ pool[m][i].CIDRMask = m
        /\ \A n \in 0..32 : \A j \in 1..Len(pool[n]) :
              (m # n \/ i # j) => ~Overlap(pool[m][i], pool[n][j])

\* C8: from a pool of one /p block exactly 2^(k-p) consecutive Alloc(k) succeed
\* with pairwise distinct results, the next one fails, and after freeing any
\* one allocated subnet a further Alloc(k) succeeds.
C8_Exhaustion ==
    LET n == Pow2(scen.k - cidr.CIDRMask)
    IN  /\ scen.phase = "alloc" =>
              /\ scen.calls <= n
              /\ scen.calls > 0 => last.err = "nil"
              /\ BagCardinality(held) = scen.calls
              /\ \A s \in HeldSet : CopiesIn(s, held) = 1 /\ s.CIDRMask = scen.k
        /\ scen.phase = "exhausted" =>
              /\ scen.calls = n + 1
              /\ last.err = "InvalidSize"
              /\ BagCardinality(held) = n
        /\ scen.phase = "freed" => last.err = "nil" /\ BagCardinality(held) = n - 1
        /\ scen.phase = "done" =>
              /\ last.op = "Alloc" /\ last.err = "nil"
              /\ BagCardinality(held) = n

\* C8's case: a pool exhausted by 2^2 or more allocations, one freed, one
\* allocated again.
C8_Witness ==
    /\ scen.phase = "done"
    /\ scen.k >= cidr.CIDRMask + 2
    /\ last.err = "nil"

---------------------------------------------------------------------------
(* Properties of the subnet arithmetic. *)

\* C9: for every subnet s of mask M in 0..31, Split gives two halves of mask
\* M+1 and Merge of the halves succeeds and gives s with its host bits cleared.
C9_SplitMergeRoundTrip ==
    /\ (calc.op = "Split" /\ calc.a.CIDRMask <= 31) =>
          /\ calc.err = "nil"
          /\ calc.lo.CIDRMask = calc.a.CIDRMask + 1
          /\ calc.hi.CIDRMask = calc.a.CIDRMask + 1
    /\ calc.op = "SplitMerge" =>
          /\ calc.err = "nil"
          /\ calc.out = Subnet(Network(calc.a.Address, calc.a.CIDRMask),
                               calc.a.CIDRMask)

\* C10: Merge fails for every two subnets of equal mask M that are not the
\* two distinct halves of one /(M-1) block.
C10_NonBuddyMergeFails ==
    (calc.op = "Merge" /\ calc.a.CIDRMask = calc.b.CIDRMask
                       /\ ~Buddies(calc.a, calc.b)) =>
        calc.err # "nil"

---------------------------------------------------------------------------
(* Properties of the controller. *)

\* The per-zone entries among the given ACL entries: all but the baseline
\* entries of the templates.
ZoneEntries(acls) == {x \in acls : x.NetworkID \notin {EndpointZone, EndpointDomain}}

\* The per-zone entries the SDN holds in the ingress or the egress template.
Template(ingress) == {x \in ZoneEntries(vsd.acls) : x.ingress = ingress}

\* The event handled last: a namespace event of the given type.
LastNs(e, type) == e.kind = "namespace" /\ e.type = type

\* C18: the ACL priority counter starts at 0 and grows by exactly 1 per value
\* handed out: after n handouts its value is n.
C18_CounterCountsHandouts ==
    nvsdc.nextAvailablePriority = ev.handouts

\* Every event so far was an Added of another non-default namespace, and no
\* SDN request failed.
OnlyFreshAdds ==
    /\ ev.n >= 1
    /\ chans.failures = 0
    /\ nvsdc.running
    /\ ev.err = "nil"
    /\ "default" \notin DOMAIN nvsdc.namespaces
    /\ Cardinality(DOMAIN nvsdc.namespaces) = ev.n

\* C17: with a fresh counter the first non-default namespace gets its ingress
\* and egress entries at priorities 300 and 301 and the next one at 302 and
\* 303.
C17_ConsecutivePriorities ==
    OnlyFreshAdds =>
        /\ {x.Priority : x \in Template(TRUE)} =
               {PriorityOffset + 2 * (k - 1) : k \in 1..ev.n}
        /\ {x.Priority : x \in Template(FALSE)} =
               {PriorityOffset + 2 * (k - 1) + 1 : k \in 1..ev.n}

\* C15: handling an event never stops the controller, whatever the order of
\* namespace and service events and whichever SDN request fails.
C15_NeverStops ==
    ev.err # "panic" /\ (ev.n >= 1 => nvsdc.running)

\* C20: after every event, each per-zone entry of the ingress template has a
\* matching entry in the egress template and the other way round.
C20_SymmetricPairs ==
    \A x \in ZoneEntries(vsd.acls) :
        \E y \in vsd.acls : /\ y.ingress # x.ingress
                            /\ y.LocationID = x.LocationID
                            /\ y.NetworkID = x.NetworkID
                            /\ y.Priority = x.Priority

\* The event handled last was Added for a namespace that was not tracked, and
\* no SDN request of it failed.
FreshAdded(e) == LastNs(e, "Added") /\ ~e.tracked /\ ~e.failed

\* The subnets the SDN holds in the zone of the given name.
SubnetsOf(v, name) ==
    IF name \in DOMAIN v.zones THEN {x \in v.subnets : x.zone = v.zones[name]}
    ELSE {}

\* C16: Added(ns) for an untracked namespace creates a zone named ns, takes a
\* block of mask 32 - subnetSize from the pool and creates the subnet
\* ns + "-0" with it in that zone; the first namespace of a fresh pool gets
\* the lowest block of the cluster CIDR, and the record of ns holds the zone
\* id and the block.
C16_AddedCreatesZoneAndSubnet ==
    FreshAdded(ev) =>
        /\ ev.name \in DOMAIN vsd.zones
        /\ \E x \in SubnetsOf(vsd, ev.name) :
               /\ x.name = SubnetName(ev.name)
               /\ x.subnet.CIDRMask = 32 - SubnetSize
               /\ ev.n = 1 => x.subnet = Subnet(cidr.Address, 32 - SubnetSize)
               /\ ev.name \in DOMAIN nvsdc.namespaces
               /\ nvsdc.namespaces[ev.name].ZoneID = vsd.zones[ev.name]
               /\ vsd.zones[ev.name] \in DOMAIN nvsdc.subnets
               /\ nvsdc.subnets[vsd.zones[ev.name]].Subnet = x.subnet

\* C11: Added(ns) handled twice in succession, every SDN request succeeding,
\* leaves the SDN as the first Added(ns) left it: no second zone, subnet,
\* macro group or ACL entry.
C11_ReplayChangesNothing ==
    [][ ( /\ ev'.n = ev.n + 1
          /\ FreshAdded(ev) /\ ev.err = "nil"
          /\ LastNs(ev', "Added") /\ ev'.name = ev.name /\ ~ev'.failed )
        => vsd' = vsd ]_vars

C13_DeletedRemovesAll ==
    ( /\ LastNs(ev, "Deleted") /\ ev.tracked
      /\ chans.failures = 0
      /\ ev.name # "default"
      /\ ev.name \in DOMAIN ev.pre.zones )
    => /\ \A x \in vsd.acls : x.LocationID # ev.pre.zones[ev.name]
       /\ ev.name \notin DOMAIN vsd.groups
       /\ \A x \in vsd.subnets : x.zone # ev.pre.zones[ev.name]
       /\ \A x \in SubnetsOf(ev.pre, ev.name) : x.subnet \in PoolEntries(pool)
       /\ ev.name \notin DOMAIN vsd.zones
       /\ ev.name \notin DOMAIN nvsdc.namespaces

\* C14: once a value is sent on the stop channel, Run eventually terminates,
\* whatever events are pending on the other two channels.
C14_StopTerminates ==
    chans.stop ~> ~nvsdc.running

\* The priorities given to per-zone entries so far grow strictly.
StrictlyIncreasing(given) ==
    \A i \in 1..Len(given) : \A j \in 1..Len(given) : i < j => given[i] < given[j]

LastService(e, type) == e.kind = "service" /\ e.type = type

\* C23: a service Added without annotations for a tracked namespace ns, no
\* request failing, creates or gets the service's network macro, records it
\* in ns's networkMacros under the service name and makes it a member of
\* ns's own macro group.
C23_ServiceAddedJoinsOwnGroup ==
    ( /\ LastService(ev, "Added") /\ ev.annotations = EmptyMap
      /\ ev.tracked /\ ~ev.failed )
    => /\ ev.err = "nil"
       /\ <<ev.name, ev.service>> \in vsd.macros
       /\ ev.name \in DOMAIN nvsdc.namespaces
       /\ ev.service \in nvsdc.namespaces[ev.name].NetworkMacros
       /\ ev.name \in DOMAIN vsd.groups
       /\ <<vsd.groups[ev.name], <<ev.name, ev.service>>>> \in vsd.members

\* C24: a service Deleted for a service recorded in its namespace's
\* networkMacros, the SDN delete succeeding, leaves no entry under the
\* service name, so that a repeated Deleted is skipped.
C24_ServiceDeletedForgets ==
    [][ ( /\ ev'.n = ev.n + 1
          /\ LastService(ev', "Deleted") /\ ~ev'.failed /\ ev'.err = "nil"
          /\ ev'.name \in DOMAIN nvsdc.namespaces
          /\ ev'.service \in nvsdc.namespaces[ev'.name].NetworkMacros )
        => /\ ev'.name \in DOMAIN nvsdc'.namespaces
           /\ ev'.service \notin nvsdc'.namespaces[ev'.name].NetworkMacros ]_vars


\* The annotation of the given key, or none.
Has(e, key) == key \in DOMAIN e.annotations

\* The outcome the precedence gives a service Added: whether the event fails
\* for its annotations and, if not, the macro group it targets.  The first of
\* id, name and zone that is present decides.
Precedence(e, c, v) ==
    IF Has(e, "network-macro-group.id")
    THEN [fails |-> FALSE, id |-> e.annotations["network-macro-group.id"]]
    ELSE IF Has(e, "network-macro-group.name")
    THEN IF e.annotations["network-macro-group.name"] \in DOMAIN v.groups
         THEN [fails |-> FALSE,
               id |-> v.groups[e.annotations["network-macro-group.name"]]]
         ELSE [fails |-> TRUE, id |-> NoID]
    ELSE IF Has(e, "zone") /\ ~( /\ e.annotations["zone"] \in DOMAIN c.namespaces
                                 /\ e.annotations["zone"] = e.name )
    THEN [fails |-> TRUE, id |-> NoID]
    ELSE [fails |-> FALSE,
          id |-> IF e.name \in DOMAIN c.namespaces
                 THEN c.namespaces[e.name].NetworkMacroGroupID ELSE NoID]

\* C21: a service Added, no request failing, fails for its annotations
\* exactly when the first present of id, name and zone says so (an id never,
\* a name that does not resolve, a zone that is not the tracked namespace of
\* the event), and otherwise its macro is put into the group that annotation
\* names, or into the namespace's own group when there is none.
C21_AnnotationPrecedence ==
    (LastService(ev, "Added") /\ ~ev.failed /\ ev.err # "panic")
    => /\ (ev.err = "annotation") = Precedence(ev, nvsdc, vsd).fails
       /\ ev.err = "nil" =>
              <<Precedence(ev, nvsdc, vsd).id, <<ev.name, ev.service>>>>
                  \in vsd.members

\* C22: a service Added in namespace A with annotation zone = B, B tracked
\* and different from A, fails with an annotation error, creates no network
\* macro and leaves the networkMacros maps as they were.
C22_ForeignZoneRejected ==
    [][ ( /\ ev'.n = ev.n + 1
          /\ LastService(ev', "Added")
          /\ "zone" \in DOMAIN ev'.annotations
          /\ ev'.annotations["zone"] \in DOMAIN nvsdc.namespaces
          /\ ev'.annotations["zone"] # ev'.name )
        => /\ ev'.err = "annotation"
           /\ vsd'.macros = vsd.macros
           /\ vsd'.members = vsd.members
           /\ nvsdc'.namespaces = nvsdc.namespaces ]_vars

\* After two namespaces were added, a service of one of them named the
\* other as its zone and was refused.
C22_Witness ==
    /\ LastService(ev, "Added") /\ ev.err = "annotation" /\ ev.tracked
    /\ Has(ev, "zone")
    /\ ev.annotations["zone"] \in DOMAIN nvsdc.namespaces
    /\ ev.annotations["zone"] # ev.name
    /\ ev.n = 3


---------------------------------------------------------------------------
(* Properties of Init. *)

\* Init has returned.
InitDone == boot.pc > Len(InitSteps)

\* The requests of Init that create an object.
CreateSteps == {2, 3, 6, 7, 8, 9}

\* C25: every create operation is create-or-get: whether the POST is answered
\* created or conflict, a create that returns without an error returns the id
\* of the one object of that natural key, so that a second call returns the id
\* of the first.
C25_CreateOrGet ==
    (boot.step \in CreateSteps /\ boot.err = "nil")
    => /\ InitSteps[boot.step] \in DOMAIN vsd.infra
       /\ boot.id = vsd.infra[InitSteps[boot.step]]

\* C26: when the filtered GET of a conflict answers with an empty list or
\* with another object, the create operation fails and returns no id.
C26_EmptyOrMismatchFails ==
    (boot.step \in CreateSteps /\ boot.got \in {"NotFound", "Mismatch"})
    => boot.err # "nil" /\ boot.id = NoID

\* C27: Init returns, and Run starts, only if none of its requests was
\* answered with an error.
C27_BootstrapFailureFatal ==
    (InitDone \/ nvsdc.running) => ~boot.failed

\* The baseline entries: forward at priority 0 and drop at priority 10^9.
Baseline(ingress) ==
    {Stored(ingress, AclEntry(NoID, EndpointZone, IntraZonePriority)),
     Stored(ingress, AclEntry(NoID, EndpointDomain, MaxPriority))}

\* C28: when Init has returned, the ingress template and the egress template
\* each hold both baseline entries.
C28_BaselineEntries ==
    InitDone => \A ingress \in BOOLEAN : Baseline(ingress) \subseteq vsd.acls

\* C30: Init does not stop for a subnet length: it continues with a subnet
\* size between 0 and 32 - m, the default (32 - m) / 2 when the configured
\* length exceeds 32 - m.
C30_SubnetSizeClamped ==
    /\ ~(boot.pc = 0 /\ boot.fatal)
    /\ boot.pc >= 1 =>
           /\ nvsdc.subnetSize \in 0..(32 - cidr.CIDRMask)
           /\ boot.subnetLength > 32 - cidr.CIDRMask =>
                  nvsdc.subnetSize = (32 - cidr.CIDRMask) \div 2


---------------------------------------------------------------------------
(* Properties of a controller that is started again. *)

\* C29: in a controller started again against the SDN of its last run, with
\* no request failing, every Added of a namespace the SDN has a zone for is
\* handled without an error, no zone has two subnets, and each tracked
\* namespace is tracked with the subnet its zone has in the SDN.
C29_RestartSafe ==
    (boot.restarts >= 1 /\ chans.failures = 0)
    => /\ (ev.kind = "namespace" /\ ev.type = "Added" /\ ev.name \in DOMAIN ev.pre.zones)
              => ev.err = "nil"
       /\ \A name \in DOMAIN vsd.zones : Cardinality(SubnetsOf(vsd, name)) <= 1
       /\ \A name \in DOMAIN nvsdc.namespaces :
              /\ nvsdc.namespaces[name].ZoneID \in DOMAIN nvsdc.subnets
              /\ \A x \in SubnetsOf(vsd, name) :
                     x.subnet = nvsdc.subnets[nvsdc.namespaces[name].ZoneID].Subnet

---------------------------------------------------------------------------
(* Properties of the pool's lists and of Compare. *)

\* Address a is below address b: at the first byte they differ in, a is less.
AddressBelow(a, b) ==
    \E i \in 0..3 : a[i] < b[i] /\ \A j \in 0..(i - 1) : a[j] = b[j]

\* C31: every bucket of the pool is sorted by address, ascending.
C31_BucketsSorted ==
    \A m \in 0..32 : \A i, j \in 1..Len(pool[m]) :
        i < j => ~AddressBelow(pool[m][j].Address, pool[m][i].Address)

\* The sign of a number.
Sign(n) == IF n < 0 THEN -1 ELSE IF n > 0 THEN 1 ELSE 0

\* The order the pool's lists are meant to have: the smaller mask is the
\* greater subnet, and of two subnets of one mask the one whose masked address
\* is above.
Order(a, b) ==
    IF a.CIDRMask # b.CIDRMask THEN Sign(b.CIDRMask - a.CIDRMask)
    ELSE IF AddressBelow(Network(a.Address, a.CIDRMask), Network(b.Address, b.CIDRMask))
    THEN -1
    ELSE IF AddressBelow(Network(b.Address, b.CIDRMask), Network(a.Address, a.CIDRMask))
    THEN 1
    ELSE 0

\* C32: Compare does not crash for masks 0..32, orders by mask and then by
\* the masked address, is 0 only for equal mask and masked address, and is
\* negative one way iff it is positive the other way.
C32_CompareTotalOrder ==
    calc.op = "Compare" =>
        /\ calc.err = "nil"
        /\ Sign(calc.n) = Order(calc.a, calc.b)
        /\ Sign(calc.back) = -Sign(calc.n)

---------------------------------------------------------------------------
(* Properties of the namespace handler and the pool it allocates from. *)

\* C33: Deleted of a tracked namespace removes it from the table only after
\* DeleteZone: while its zone is still in the SDN the namespace is tracked.
C33_TrackedUntilZoneDeleted ==
    (LastNs(ev, "Deleted") /\ ev.tracked /\ ev.name \in DOMAIN vsd.zones)
    => ev.name \in DOMAIN nvsdc.namespaces

\* C36: a pool call that returns an error leaves the pool as it was: a failed
\* Alloc removes and splits nothing, a failed Free links nothing.
C36_FailedCallKeepsPool ==
    [][ (last' # last /\ last'.err \notin {"nil", "panic"}) => pool' = pool ]_vars

\* A Free was refused as a double free of a pool whose list holds two subnets.
C36_Witness ==
    /\ last.op \in {"FreeAgain", "FreeHeld"}
    /\ last.err = "DoubleFree"
    /\ \E m \in 0..32 : Len(pool[m]) >= 2

\* The blocks recorded in the subnet lists of the zones.
Recorded == {nvsdc.subnets[z].Subnet : z \in DOMAIN nvsdc.subnets}

\* The blocks of the mask of a namespace's subnet that make up the cluster
\* network.
Units ==
    LET mask == 32 - nvsdc.subnetSize
        size == Pow2(32 - mask)
    IN  {Subnet([i \in 0..3 |->
                    cidr.Address[i] + (((u * size) \div Pow2(8 * (3 - i))) % 256)],
                mask) :
            u \in 0..(Pow2(mask - cidr.CIDRMask) - 1)}

\* C37: after every namespace event, and already when no SDN request has
\* failed, every address of the cluster network is free in the pool or lies
\* in a block recorded in one zone's subnet list.
C37_NoBlockLeaked ==
    (ev.kind = "namespace" /\ ev.err # "panic" /\ chans.failures = 0)
    => \A u \in Units :
           \/ \E s \in PoolEntries(pool) : Contains(s, u)
           \/ \E s \in Recorded : Contains(s, u)

\* C38: the blocks recorded for different zones do not overlap, and no block
\* is freed that is free already: no recorded block overlaps a free one, and
\* no list of the pool holds a block twice.
C38_RecordedDisjoint ==
    /\ \A y, z \in DOMAIN nvsdc.subnets :
           y # z => ~Overlap(nvsdc.subnets[y].Subnet, nvsdc.subnets[z].Subnet)
    /\ \A m \in 0..32 : \A i, j \in 1..Len(pool[m]) :
           i # j => pool[m][i] # pool[m][j]
    /\ \A s \in Recorded : \A f \in PoolEntries(pool) : ~Overlap(s, f)

\* A block that was freed has been handed out again: a zone created later
\* holds a block below the block of a zone created earlier.
C38_Witness ==
    /\ LastNs(ev, "Added") /\ ev.err = "nil"
    /\ \E y, z \in DOMAIN nvsdc.subnets :
           /\ y < z
           /\ AddressBelow(nvsdc.subnets[z].Subnet.Address,
                           nvsdc.subnets[y].Subnet.Address)

\* Added(name) with request failAt failing, from the present state, is an
\* Added of an untracked namespace whose CreateSubnet fails.
CreateSubnetFails(failAt, name) ==
    LET z == CreateZone(Begin(failAt), name)
        w == RecordZone(z.s, name, z.id)
        a == Alloc(w.s.pool, 32 - w.s.subnetSize)
        c == CreateSubnet([w.s EXCEPT !.pool = a.pool], SubnetName(name), z.id, a.subnet)
    IN  /\ name \notin DOMAIN nvsdc.namespaces
        /\ z.err = "nil" /\ w.err = "nil" /\ a.err = "nil"
        /\ c.err # "nil"

\* The blocks of a namespace's size that are free in pool p.
FreeUnits(p) == {u \in Units : \E s \in PoolEntries(p) : Contains(s, u)}

\* C34: when CreateSubnet fails during Added(ns) the event fails, the block
\* just allocated is back in the pool, the pool's free addresses are those
\* before the event, and no subnet list has been recorded.
C34_FailedSubnetFreesBlock ==
    [][ \A name \in Namespaces, failAt \in 1..MaxCalls :
          ( /\ CreateSubnetFails(failAt, name)
            /\ ev'.n = ev.n + 1 /\ LastNs(ev', "Added") /\ ev'.name = name
            /\ pool' = HandleNsEvent(Begin(failAt), "Added", name).s.pool
            /\ vsd' = HandleNsEvent(Begin(failAt), "Added", name).s.v
            /\ ev'.err = HandleNsEvent(Begin(failAt), "Added", name).err )
          => /\ ev'.err = "error"
             /\ Alloc(pool, 32 - nvsdc.subnetSize).subnet \in PoolEntries(pool')
             /\ FreeUnits(pool') = FreeUnits(pool)
             /\ nvsdc'.subnets = nvsdc.subnets ]_vars

\* C35: a Deleted event for an untracked namespace whose zone the SDN does not
\* have, with every request answered, returns no error and changes nothing.
C35_DeleteGoneZoneSucceeds ==
    (LastNs(ev, "Deleted") /\ ~ev.tracked /\ ~ev.failed
       /\ ev.name \notin DOMAIN ev.pre.zones)
        => ev.err = "nil"

\* C39: an Added event for a namespace already in the table leaves its record
\* (ZoneID, NetworkMacroGroupID, NetworkMacros) as it was.
C39_ReplayKeepsRecord ==
    [][ \A name \in Namespaces :
          ( /\ name \in DOMAIN nvsdc.namespaces
            /\ ev'.n = ev.n + 1 /\ LastNs(ev', "Added") /\ ev'.name = name
            /\ ev'.tracked /\ ev'.err = "nil" )
          => /\ name \in DOMAIN nvsdc'.namespaces
             /\ nvsdc'.namespaces[name] = nvsdc.namespaces[name] ]_vars

=============================================================================
